---- MODULE Spec2Model ----
(***************************************************************************)
(* A model of mermaid-cli-python: the command surface (mermaid_cli/cli.py) *)
(* and the renderer (mermaid_cli/renderer.py).                             *)
(*                                                                         *)
(* Text is a sequence of one-character strings.  Python's None and the     *)
(* empty string are both the empty sequence: every place of the code that  *)
(* reads an optional string tests its truth value (`if not output_format`, *)
(* `if input_file`, `if title`, `desc or 'diagram'`), which does not tell  *)
(* them apart.  Paths follow posixpath; text files follow POSIX text mode  *)
(* (universal newlines on read, "\n" written as "\n").                     *)
(***************************************************************************)
EXTENDS Integers, Sequences, FiniteSets, TLC

\* ------------------------------------------------------------------ bounds

\* The largest number of mermaid blocks of a generated Markdown document.
MaxBlocks == 2

\* ------------------------------------------------------------- text helpers

Max(S) == CHOOSE x \in S : \A y \in S : y <= x

Min(S) == CHOOSE x \in S : \A y \in S : x <= y

RECURSIVE Flatten(_)
\* ''.join(parts)
Flatten(ss) == IF ss = <<>> THEN <<>> ELSE Head(ss) \o Flatten(Tail(ss))

\* s[a-1:b-1] of Python, as 1-based positions a .. b-1
Slice(s, a, b) == IF a >= b THEN <<>> ELSE SubSeq(s, a, b - 1)

\* str.startswith
StartsWith(s, p) == Len(s) >= Len(p) /\ SubSeq(s, 1, Len(p)) = p

\* str.endswith
EndsWith(s, p) == Len(s) >= Len(p) /\ SubSeq(s, Len(s) - Len(p) + 1, Len(s)) = p

\* str.rfind, 1-based, 0 when absent (Python: 0-based, -1 when absent)
RFind(s, c) ==
    LET I == {k \in 1..Len(s) : s[k] = c}
    IN  IF I = {} THEN 0 ELSE Max(I)

\* one character of str.lower
LowerChar(c) ==
    CASE c = "M" -> "m" [] c = "D" -> "d" [] c = "S" -> "s" [] c = "V" -> "v"
      [] c = "G" -> "g" [] c = "P" -> "p" [] c = "N" -> "n" [] c = "F" -> "f"
      [] OTHER -> c

\* str.lower
Lower(s) == [k \in 1..Len(s) |-> LowerChar(s[k])]

\* str.split(sep): the segments between the separators, empty ones kept
Split(s, sep) ==
    LET F[k \in 0..Len(s)] ==
            IF k = 0 THEN << <<>> >>
            ELSE IF s[k] = sep THEN Append(F[k - 1], <<>>)
            ELSE [F[k - 1] EXCEPT ![Len(F[k - 1])] = Append(@, s[k])]
    IN  F[Len(s)]

RECURSIVE JoinWith(_, _)
\* sep.join(parts)
JoinWith(parts, sep) ==
    IF parts = <<>> THEN <<>>
    ELSE IF Len(parts) = 1 THEN parts[1]
    ELSE parts[1] \o <<sep>> \o JoinWith(Tail(parts), sep)

Digit == <<"0", "1", "2", "3", "4", "5", "6", "7", "8", "9">>

RECURSIVE Str(_)
\* str(n) of a natural number
Str(n) == IF n < 10 THEN <<Digit[n + 1]>> ELSE Str(n \div 10) \o <<Digit[(n % 10) + 1]>>

\* ------------------------------------------------------------------- paths

\* os.getcwd(): the directory the process runs in
Cwd == <<"/", "w">>

\* os.path.basename
basename(p) == Slice(p, RFind(p, "/") + 1, Len(p) + 1)

RECURSIVE RStripSlash(_)
RStripSlash(s) ==
    IF s # <<>> /\ s[Len(s)] = "/" THEN RStripSlash(SubSeq(s, 1, Len(s) - 1)) ELSE s

\* os.path.dirname
dirname(p) ==
    LET head == SubSeq(p, 1, RFind(p, "/"))
    IN  IF head # <<>> /\ (\E k \in 1..Len(head) : head[k] # "/")
        THEN RStripSlash(head) ELSE head

\* os.path.splitext: the last dot of the last component starts the extension,
\* unless only dots precede it in that component
splitext(p) ==
    LET sepIndex == RFind(p, "/")
        dotIndex == RFind(p, ".")
    IN  IF dotIndex > sepIndex /\ (\E k \in (sepIndex + 1)..(dotIndex - 1) : p[k] # ".")
        THEN <<SubSeq(p, 1, dotIndex - 1), SubSeq(p, dotIndex, Len(p))>>
        ELSE <<p, <<>> >>

\* os.path.join(a, b)
join(a, b) ==
    IF StartsWith(b, <<"/">>) THEN b
    ELSE IF a = <<>> \/ EndsWith(a, <<"/">>) THEN a \o b
    ELSE a \o <<"/">> \o b

\* os.path.normpath
normpath(path) ==
    LET initial_slashes ==
            IF ~StartsWith(path, <<"/">>) THEN 0
            ELSE IF StartsWith(path, <<"/", "/">>) /\ ~StartsWith(path, <<"/", "/", "/">>)
            THEN 2 ELSE 1
        comps == Split(path, "/")
        New[k \in 0..Len(comps)] ==
            IF k = 0 THEN <<>>
            ELSE LET comp == comps[k]
                     new_comps == New[k - 1]
                 IN  IF comp = <<>> \/ comp = <<".">> THEN new_comps
                     ELSE IF comp # <<".", ".">>
                             \/ (initial_slashes = 0 /\ new_comps = <<>>)
                             \/ (new_comps # <<>> /\ new_comps[Len(new_comps)] = <<".", ".">>)
                     THEN Append(new_comps, comp)
                     ELSE IF new_comps # <<>> THEN SubSeq(new_comps, 1, Len(new_comps) - 1)
                     ELSE new_comps
        joined == [k \in 1..initial_slashes |-> "/"] \o JoinWith(New[Len(comps)], "/")
    IN  IF path = <<>> \/ joined = <<>> THEN <<".">> ELSE joined

\* os.path.abspath
abspath(p) == normpath(IF StartsWith(p, <<"/">>) THEN p ELSE join(Cwd, p))

\* the non-empty components of an absolute path
PathList(p) == SelectSeq(Split(abspath(p), "/"), LAMBDA x : x # <<>>)

\* os.path.relpath(path, start)
relpath(path, start) ==
    LET start_list == PathList(start)
        path_list == PathList(path)
        m == Min({Len(start_list), Len(path_list)})
        i == Max({k \in 0..m : \A j \in 1..k : start_list[j] = path_list[j]})
        rel_list == [k \in 1..(Len(start_list) - i) |-> <<".", ".">>]
                    \o SubSeq(path_list, i + 1, Len(path_list))
    IN  IF rel_list = <<>> THEN <<".">> ELSE JoinWith(rel_list, "/")

\* -------------------------------------------------------------- text files

RECURSIVE UniversalNewlines(_)
\* open(path, 'r') reads in universal-newlines mode: "\r\n" and a lone "\r"
\* both arrive as "\n"
UniversalNewlines(b) ==
    IF b = <<>> THEN <<>>
    ELSE IF Head(b) = "\r"
    THEN <<"\n">> \o UniversalNewlines(IF Len(b) >= 2 /\ b[2] = "\n"
                                        THEN SubSeq(b, 3, Len(b)) ELSE Tail(b))
    ELSE <<Head(b)>> \o UniversalNewlines(Tail(b))

\* open(path, 'w') on POSIX writes "\n" as os.linesep, which is "\n"
TextModeWrite(t) == t

\* ------------------------------------------------- the mermaid block pattern
\* ^[^\S\n]*[`:]{3}(?:mermaid)([^\S\n]*\r?\n([\s\S]*?))[`:]{3}[^\S\n]*$
\* compiled with re.MULTILINE

\* [^\S\n]: white space other than the line feed
HWS == {" ", "\t", "\r", "\f"}

\* the grave accent (backtick), which a TLA+ string literal cannot hold
Backtick == "BACKTICK"

\* the character class of the fence, a backtick or a colon
FenceChar == {Backtick, ":"}

\* the literal of (?:mermaid)
Word == <<"m", "e", "r", "m", "a", "i", "d">>

RECURSIVE SkipHWS(_, _)
\* the position after the longest run of [^\S\n] that starts at position p
SkipHWS(t, p) == IF p <= Len(t) /\ t[p] \in HWS THEN SkipHWS(t, p + 1) ELSE p

\* the fence of backticks alone, [`]{3}
FenceAt_backticks(t, p) == p + 2 <= Len(t) /\ \A k \in p..(p + 2) : t[k] = Backtick

\* [`:]{3} at position p
FenceAt(t, p) == p + 2 <= Len(t) /\ \A k \in p..(p + 2) : t[k] \in FenceChar

\* ^ under re.MULTILINE: the start of the text or the position after a line feed
AtLineStart(t, p) == p = 1 \/ t[p - 1] = "\n"

\* $ under re.MULTILINE: the end of the text or the position of a line feed
AtLineEnd(t, p) == p = Len(t) + 1 \/ t[p] = "\n"

\* [`:]{3}[^\S\n]*$ at position j: the run of white space is taken whole, and
\* giving part of it back leaves a white-space character where $ must stand
CloserAt(t, j) == FenceAt(t, j) /\ AtLineEnd(t, SkipHWS(t, j + 3))

\* ^[^\S\n]*[`:]{3}(?:mermaid)[^\S\n]*\r?\n at position s: the position where
\* group 2 starts, 0 when the opening does not match.  "\r" is in [^\S\n], so
\* the greedy run takes it and \r? matches empty
OpenerAt(t, s) ==
    LET a == SkipHWS(t, s)
        b == SkipHWS(t, a + 10)
    IN  IF /\ AtLineStart(t, s)
           /\ FenceAt(t, a)
           /\ a + 9 <= Len(t)
           /\ SubSeq(t, a + 3, a + 9) = Word
           /\ b <= Len(t)
           /\ t[b] = "\n"
        THEN b + 1 ELSE 0

\* the pattern tried at position s: [start, stop) is group 0 and [bstart, bstop)
\* group 2; the lazy ([\s\S]*?) stops at the first position where the rest of
\* the pattern matches.  start = 0 when there is no match at s
NoMatch == [start |-> 0, stop |-> 0, bstart |-> 0, bstop |-> 0]

\* the pattern with a greedy body, ([\s\S]*): the match runs to the last
\* closing delimiter of the text
MatchAt_greedy(t, s) ==
    LET bstart == OpenerAt(t, s)
        J == IF bstart = 0 THEN {} ELSE {j \in bstart..Len(t) : CloserAt(t, j)}
    IN  IF J = {} THEN NoMatch
        ELSE [start |-> s, stop |-> SkipHWS(t, Max(J) + 3),
              bstart |-> bstart, bstop |-> Max(J)]

MatchAt(t, s) ==
    LET bstart == OpenerAt(t, s)
        J == IF bstart = 0 THEN {} ELSE {j \in bstart..Len(t) : CloserAt(t, j)}
    IN  IF J = {} THEN NoMatch
        ELSE [start |-> s, stop |-> SkipHWS(t, Min(J) + 3),
              bstart |-> bstart, bstop |-> Min(J)]

\* pattern.search(t, pos): the leftmost match starting at pos or later
Search(t, pos) ==
    LET S == {s \in pos..Len(t) : MatchAt(t, s).start # 0}
    IN  IF S = {} THEN NoMatch ELSE MatchAt(t, Min(S))

RECURSIVE FindIterFrom(_, _)
FindIterFrom(t, pos) ==
    LET m == Search(t, pos)
    IN  IF m.start = 0 THEN <<>> ELSE <<m>> \o FindIterFrom(t, m.stop)

\* list(mermaid_pattern.finditer(definition)): a match is never empty, so the
\* scan resumes where the last match stopped
finditer(t) == FindIterFrom(t, 1)

\* match.group(0)
group0(t, m) == Slice(t, m.start, m.stop)

\* match.group(2)
group2(t, m) == Slice(t, m.bstart, m.bstop)

\* ---------------------------------------------------------- image references

RECURSIVE EscapeChars(_, _)
\* str.replace left out: nothing is escaped
EscapeChars_none(s, cs) == s

\* s with a backslash before every character of the set cs
EscapeChars(s, cs) ==
    IF s = <<>> THEN <<>>
    ELSE (IF Head(s) \in cs THEN <<"\\", Head(s)>> ELSE <<Head(s)>>)
         \o EscapeChars(Tail(s), cs)

\* _create_markdown_image(url, title, alt)
create_markdown_image(url, title, alt) ==
    LET alt_escaped == EscapeChars(alt, {"[", "]"})
        title_escaped == EscapeChars(title, {"\""})
    IN  IF title # <<>>
        THEN <<"!", "[">> \o alt_escaped \o <<"]", "(">> \o url \o <<" ", "\"">>
             \o title_escaped \o <<"\"", ")">>
        ELSE <<"!", "[">> \o alt_escaped \o <<"]", "(">> \o url \o <<")">>

\* replace_func with image_data.pop() in place of image_data.pop(0): the
\* references are taken from the wrong end
replace_func_pop_last(t, m, queue) ==
    IF queue = <<>>
    THEN [text |-> group0(t, m), image_data |-> queue]
    ELSE LET last == queue[Len(queue)]
         IN  [text |-> create_markdown_image(last.url, last.title, last.alt),
              image_data |-> SubSeq(queue, 1, Len(queue) - 1)]

\* replace_func(match) with image_data as it stands at the call: the text put
\* in place of the match, and image_data after the call
replace_func(t, m, queue) ==
    IF queue = <<>>
    THEN [text |-> group0(t, m), image_data |-> queue]
    ELSE [text |-> create_markdown_image(Head(queue).url, Head(queue).title, Head(queue).alt),
          image_data |-> Tail(queue)]

RECURSIVE SubFrom(_, _, _)
SubFrom(t, pos, queue) ==
    LET m == Search(t, pos)
        r == replace_func(t, m, queue)
        rest == SubFrom(t, m.stop, r.image_data)
    IN  IF m.start = 0 THEN [text |-> Slice(t, pos, Len(t) + 1), image_data |-> queue]
        ELSE [text |-> Slice(t, pos, m.start) \o r.text \o rest.text,
              image_data |-> rest.image_data]

\* mermaid_pattern.sub(replace_func, definition, count=1): the first match
\* alone is replaced
sub_first(t, queue) ==
    LET m == Search(t, 1)
        r == replace_func(t, m, queue)
    IN  IF m.start = 0 THEN [text |-> t, image_data |-> queue]
        ELSE [text |-> Slice(t, 1, m.start) \o r.text \o Slice(t, m.stop, Len(t) + 1),
              image_data |-> r.image_data]

\* mermaid_pattern.sub(replace_func, definition): a second scan of the text,
\* the text between the matches copied, each match replaced by what
\* replace_func returns (taken literally: a callable's result is not a template);
\* with the text, image_data as the calls of replace_func leave it
sub(t, queue) == SubFrom(t, 1, queue)

\* ------------------------------------------------------------ the input sets

\* words of the paths and formats
svg == <<"s", "v", "g">>
png == <<"p", "n", "g">>
pdf == <<"p", "d", "f">>
jpg == <<"j", "p", "g">>
Dash == <<"-">>
DevStdout == <<"/", "d", "e", "v", "/", "s", "t", "d", "o", "u", "t">>
Ext_md == <<".", "m", "d">>
Ext_markdown == <<".", "m", "a", "r", "k", "d", "o", "w", "n">>
Ext_svg == <<".">> \o svg
Ext_png == <<".">> \o png
Ext_pdf == <<".">> \o pdf
Out == <<"o", "u", "t">>
InputMd == <<"d">> \o Ext_md
InputMmd == <<"i", ".", "m", "m", "d">>

\* one line of plain text, and a fenced block that is not a mermaid block
TextLine == <<"x", " ", "y">>
OtherFence == <<Backtick, Backtick, Backtick, "p", "y">>
Fence3(c) == <<c, c, c>>

\* the lines of a mermaid block: opening line, body lines, closing line
BlockLines(open, body, close) == <<open \o Word>> \o body \o <<close>>

\* the body line of the block that pairs the opening delimiter o with the
\* closing delimiter c
BodyOf(o, c) ==
    IF o = Backtick THEN (IF c = Backtick THEN <<"A">> ELSE <<"B">>)
    ELSE (IF c = Backtick THEN <<"C">> ELSE <<"D">>)

\* the mermaid blocks of the generated documents: the four pairings of the two
\* delimiters, an indented block with trailing blanks, an empty body, and a body
\* line that ends in three backticks
BlockSet ==
    {BlockLines(Fence3(o), <<BodyOf(o, c)>>, Fence3(c)) : o \in FenceChar, c \in FenceChar}
    \cup {BlockLines(<<" ", "\t">> \o Fence3(Backtick), <<<<"E">>, <<" ", "F">>>>,
                     <<" ">> \o Fence3(":") \o <<" ">>),
          <<Fence3(Backtick) \o Word \o <<" ">>, Fence3(Backtick)>>,
          BlockLines(Fence3(Backtick), <<<<"G", " ">> \o Fence3(Backtick)>>, Fence3(Backtick))}

\* how the lines of a document are laid out: the line terminator, whether text
\* lines stand around the blocks, whether the last line is terminated
DocStyle ==
    {[nl |-> <<"\n">>, text |-> FALSE, final |-> FALSE],
     [nl |-> <<"\n">>, text |-> TRUE, final |-> TRUE],
     [nl |-> <<"\r", "\n">>, text |-> TRUE, final |-> TRUE]}

RECURSIVE DocLines(_, _)
\* the lines of the document with the given blocks, text before and after each
DocLines(blocks, text) ==
    IF blocks = <<>> THEN (IF text THEN <<TextLine, OtherFence, TextLine, Fence3(Backtick)>>
                           ELSE <<TextLine>>)
    ELSE (IF text THEN <<TextLine>> ELSE <<>>) \o Head(blocks)
         \o (IF Len(blocks) = 1 THEN (IF text THEN <<TextLine>> ELSE <<>>)
             ELSE DocLines(Tail(blocks), text))

RECURSIVE JoinLines(_, _)
JoinLines(lines, nl) ==
    IF lines = <<>> THEN <<>>
    ELSE IF Len(lines) = 1 THEN lines[1]
    ELSE lines[1] \o nl \o JoinLines(Tail(lines), nl)

\* the bytes of the document with the given blocks in the given style
Doc(blocks, style) ==
    JoinLines(DocLines(blocks, style.text), style.nl)
    \o (IF style.final THEN style.nl ELSE <<>>)

\* the sequences of at most n blocks
BlockSeqs(n) == UNION {[1..k -> BlockSet] : k \in 0..n}

ABlock == BlockLines(Fence3(Backtick), <<<<"A">>>>, Fence3(Backtick))
DBlock == BlockLines(Fence3(":"), <<<<"D">>>>, Fence3(":"))

\* the layout of a document: its blocks and its style
\* and the lines that follow the last of them
Layout(bs, st) == [blocks |-> bs, style |-> st, tail |-> <<>>]
LayoutDoc(l) ==
    JoinLines(DocLines(l.blocks, l.style.text) \o l.tail, l.style.nl)
    \o (IF l.style.final THEN l.style.nl ELSE <<>>)

\* three layouts for the runs that vary something else: no block (with
\* "\r\n" line ends), one block, two blocks
LayoutNone == Layout(<<>>, [nl |-> <<"\r", "\n">>, text |-> TRUE, final |-> TRUE])
LayoutOne == Layout(<<ABlock>>, [nl |-> <<"\n">>, text |-> TRUE, final |-> TRUE])
LayoutTwo == Layout(<<ABlock, DBlock>>, [nl |-> <<"\n">>, text |-> TRUE, final |-> TRUE])

\* the layouts of the Markdown documents: at most MaxBlocks blocks, in every style
Layouts == {Layout(bs, st) : bs \in BlockSeqs(MaxBlocks), st \in DocStyle}

\* mermaid fences the pattern does not take: a fence of four backticks, a
\* fence that is not closed, an opening line with text after the word
LongFence == <<Fence3(Backtick) \o <<Backtick>> \o Word, <<"L">>, Fence3(Backtick) \o <<Backtick>>>>
OpenFence == <<Fence3(Backtick) \o Word, <<"U">>>>
TitledFence == <<Fence3(Backtick) \o Word \o <<" ", "t">>, <<"V">>, Fence3(Backtick)>>

\* documents that end in such a fence, after no block and after one block
TailLayouts ==
    {[LayoutOne EXCEPT !.blocks = bs, !.tail = t] :
        bs \in {<<>>, <<ABlock>>}, t \in {LongFence, OpenFence, TitledFence}}

\* a diagram definition that is not Markdown
Diagram == <<"g", " ", "A", "\n">>

\* ---------------------------------------------------------- the file system

RECURSIVE Ancestors(_)
\* an absolute directory and every directory above it
Ancestors(d) == IF dirname(d) = d THEN {d} ELSE {d} \cup Ancestors(dirname(d))

Root == <<"/">>
SubDir == Cwd \o <<"/", "o">>
BaseDirs == {Root, Cwd, <<"/", "d", "e", "v">>}

\* ---------------------------------------------------------------- the state

VARIABLES
    entry,                    \* "cli": the command was run; "api": render_mermaid_file was called
    pc,                       \* the statement the run stands at
    \* main's options and locals (cli.py)
    input, output, cli_output_format, quiet,
    config_file, playwright_config_file, css_file,
    theme, icon_packs,        \* -t and --icon-packs
    background_color,         \* -b, or the caller's background_color
    mermaid_config,           \* the dict main builds for mermaid, {} while it is not built
    playwright_config,        \* the dict main builds for the browser, or the caller's
    \* the environment
    config_json,              \* the object the file of -c holds
    playwright_json,          \* the object the file of -p holds
    files,                    \* the files that exist (absolute paths)
    dirs,                     \* the directories that exist (absolute paths)
    made,                     \* the directories os.makedirs created
    readonly,                 \* the directories the process cannot write in
    src,                      \* the bytes of the input file, or of standard input
    layout,                   \* how a Markdown input was written: its blocks and its style
    \* render_mermaid_file's parameters and locals (renderer.py)
    input_file, output_file, output_format,
    definition, matches, i, image_data, output_image, output_image_relative,
    title, desc, data,
    \* render_mermaid's locals (renderer.py)
    browser,                  \* "none" | "open" | "closed": the browser of the current call
    page,                     \* the last step of the current call that completed
    result,                   \* title, desc and data as the current call holds them
    exc,                      \* the exception in flight, "none" when there is none
    \* what the run has done
    launches, closes,         \* calls of chromium.launch that returned, calls of browser.close
    calls,                    \* the calls of render_mermaid, each with how it ended
    evaluated,                \* the scripts handed to page.evaluate by the steps that completed
    viewport,                 \* the size of the page's viewport, in pixels
    appended,                 \* every dict image_data.append received, in order
    writes,                   \* every file written, in order: path, mode, content
    stdout, stderr,           \* what was printed on the two streams, in order
    exit_code                 \* the process's exit status, -1 while it runs

cliVars == <<input, output, cli_output_format, quiet, config_file, playwright_config_file, css_file>>
optVars == <<theme, icon_packs, background_color, mermaid_config, playwright_config, config_json,
             playwright_json>>
envVars == <<files, dirs, made, readonly, src, layout>>
argVars == <<input_file, output_file, output_format>>
fileVars == <<definition, matches, i, image_data, output_image, output_image_relative,
              title, desc, data, appended>>
renderVars == <<browser, page, result, launches, closes, calls, evaluated, viewport>>
outVars == <<writes, stdout, stderr, exit_code>>
vars == <<entry, pc, cliVars, optVars, envVars, argVars, fileVars, renderVars, outVars, exc>>

\* ------------------------------------------------------------ the scenarios

\* a dict is the set of its items, <<key, value>>, no key twice
Keys(d) == {kv[1] : kv \in d}

\* d.update(e) with the keys of e kept as d has them
Update_keep(d, e) == d \cup {kv \in e : kv[1] \notin Keys(d)}

\* d.update(e): the items of e, and those of d whose key e does not hold
Update(d, e) == {kv \in d : kv[1] \notin Keys(e)} \cup e

\* the values of -t, the objects a mermaid configuration file may hold, the
\* objects a Playwright configuration file may hold, and an icon pack
Themes == {"default", "forest"}
ConfigJsons == {{}, {<<"theme", "dark">>}, {<<"flowchart", "curve">>}}
PlaywrightJsons == {{<<"headless", "False">>}, {<<"args", "--no-sandbox">>}}
IconPack == <<"@iconify-json/logos">>

\* the states of a file an option names: the option absent, the file absent,
\* the file readable, the file not holding a JSON object
ConfigStates == {"none", "missing", "ok", "invalid"}
CssStates == {"none", "missing", "ok"}

\* background colours: the default, a colour name, and a value that holds
\* single quotes
White == <<"w", "h", "i", "t", "e">>
Transparent == <<"t", "r", "a", "n", "s", "p", "a", "r", "e", "n", "t">>
QuotedColour == <<"r", "e", "d", "'", ";", "x", "=", "'">>
BackgroundColours == {White, Transparent, QuotedColour}

\* the text of the file of -C
CssContent == <<"s", "v", "g", "{", "}">>

\* the content behind an input is the document of the layout for a Markdown
\* path and a diagram definition otherwise
Scenario(e, in, out, fmt, q, cfg, pw, css, fs, ds, ro, l) ==
    [entry |-> e, input |-> in, output |-> out, format |-> fmt, quiet |-> q,
     config_file |-> cfg, playwright_config_file |-> pw, css_file |-> css,
     files |-> fs, dirs |-> ds, readonly |-> ro, layout |-> l,
     src |-> IF EndsWith(Lower(in), Ext_md) THEN LayoutDoc(l) ELSE Diagram,
     theme |-> "default", icon_packs |-> <<>>, config_json |-> {}, playwright_json |-> {},
     playwright_config |-> {}, background_color |-> White]

CliInputs == {<<>>, Dash, InputMd, InputMmd}
CliOutputs == {<<>>, Dash, Out \o Ext_md, <<"o", "/">> \o Out \o Ext_svg,
               Out \o <<".", "t", "x", "t">>, Out \o <<".", "P", "N", "G">>}

\* command lines that vary the paths and what exists
CliPathScenarios ==
    {Scenario("cli", in, out, fmt, FALSE, "none", "none", "none",
              fs, BaseDirs \cup ds, ro, LayoutOne) :
        in \in CliInputs, out \in CliOutputs, fmt \in {<<>>, png, jpg},
        fs \in {{}, {abspath(InputMd), abspath(InputMmd)}},
        ds \in {{}, {SubDir}}, ro \in {{}, {Cwd, SubDir}}}

\* command lines that vary the configuration files
CliConfigScenarios ==
    {Scenario("cli", InputMmd, Out \o Ext_svg, <<>>, FALSE, cfg, pw, css,
              {abspath(InputMmd)}, BaseDirs, {}, LayoutNone) :
        cfg \in ConfigStates, pw \in ConfigStates, css \in CssStates}

\* command lines that vary the document, the format and -q
CliDocScenarios ==
    {Scenario("cli", InputMd, out, fmt, q, "none", "none", "none",
              {abspath(InputMd)}, BaseDirs, {}, l) :
        out \in {Out \o Ext_md, Out \o Ext_pdf}, fmt \in {<<>>, svg, png, pdf}, q \in BOOLEAN,
        l \in {LayoutNone, LayoutOne, LayoutTwo}}

ApiOutputs ==
    {Out \o Ext_md, Out \o <<".", "M", "D">>, Out \o Ext_markdown, Out \o Ext_svg,
     Out \o <<".", "P", "N", "G">>, Out \o Ext_pdf, Out, Out \o <<".", "t", "x", "t">>,
     Ext_md, <<".", "h">> \o Ext_md, <<"o", "/">> \o Out \o Ext_md,
     <<".", ".", "/">> \o Out \o Ext_md, <<"o", "/", ".", ".", "/", "a", ".", "b">> \o Ext_svg,
     DevStdout}

\* calls of render_mermaid_file that vary the destination and the format
ApiPathScenarios ==
    {Scenario("api", in, out, fmt, FALSE, "none", "none", "none",
              {abspath(InputMd), abspath(InputMmd)}, BaseDirs, {}, LayoutTwo) :
        in \in {<<>>, InputMd, InputMmd}, out \in ApiOutputs,
        fmt \in {<<>>, svg, png, pdf, jpg}}

\* calls of render_mermaid_file that vary the Markdown document
ApiDocScenarios ==
    {Scenario("api", InputMd, Out \o Ext_md, <<>>, FALSE, "none", "none", "none",
              {abspath(InputMd)}, BaseDirs, {}, l) : l \in Layouts \cup TailLayouts}

\* calls of render_mermaid_file on a missing input or a directory it cannot write in
ApiFsScenarios ==
    {Scenario("api", InputMd, out, <<>>, q, "none", "none", "none",
              fs, BaseDirs \cup ds, ro, LayoutTwo) :
        out \in {Out \o Ext_md, <<"o", "/">> \o Out \o Ext_md,
                 <<"o", "/", "p", "/">> \o Out \o Ext_md}, q \in BOOLEAN,
        fs \in {{}, {abspath(InputMd)}}, ds \in {{}, {SubDir}}, ro \in {{}, {Cwd}, {SubDir}}}

\* command lines that vary the theme and what the configuration files hold
CliMergeScenarios ==
    {[Scenario("cli", InputMmd, Out \o Ext_svg, <<>>, FALSE, "ok", pw, "none",
               {abspath(InputMmd)}, BaseDirs, {}, LayoutNone)
         EXCEPT !.theme = t, !.config_json = cj, !.playwright_json = pj] :
        t \in Themes, cj \in ConfigJsons, pw \in {"none", "ok"}, pj \in PlaywrightJsons}

\* command lines that send a single diagram to standard output
CliStdoutScenarios ==
    {[Scenario("cli", InputMmd, Dash, fmt, q, "none", "none", "none",
               {abspath(InputMmd)}, BaseDirs, {}, LayoutNone)
         EXCEPT !.icon_packs = ip] :
        fmt \in {<<>>, png}, q \in BOOLEAN, ip \in {<<>>, IconPack}}

\* calls of render_mermaid_file that pass a browser configuration
ApiConfigScenarios ==
    {[Scenario("api", InputMmd, Out \o Ext_svg, <<>>, TRUE, "none", "none", "none",
               {abspath(InputMmd)}, BaseDirs, {}, LayoutNone)
         EXCEPT !.playwright_config = pc0] :
        pc0 \in PlaywrightJsons \cup {{<<"headless", "True">>, <<"channel", "chrome">>}}}

\* runs that pass a background colour, from the command line and in a call
BackgroundScenarios ==
    {[Scenario(e, InputMmd, Out \o Ext_svg, <<>>, TRUE, "none", "none", css,
               {abspath(InputMmd)}, BaseDirs, {}, LayoutNone)
         EXCEPT !.background_color = b] :
        e \in {"cli", "api"}, css \in {"none", "ok"}, b \in BackgroundColours}

Scenarios ==
    BackgroundScenarios \cup CliPathScenarios \cup CliConfigScenarios \cup CliDocScenarios
    \cup CliMergeScenarios \cup CliStdoutScenarios
    \cup ApiPathScenarios \cup ApiDocScenarios \cup ApiFsScenarios \cup ApiConfigScenarios

\* the branches taken with png and with any other format exchanged
CaptureBranch_swapped(fmt) ==
    IF fmt = svg THEN "serializeToString" ELSE IF fmt = png THEN "page.pdf" ELSE "page.screenshot"

\* "Generate output based on the requested format": the call that makes data
CaptureBranch(fmt) ==
    IF fmt = svg THEN "serializeToString" ELSE IF fmt = png THEN "page.screenshot" ELSE "page.pdf"

\* the first bytes of what each call hands back: the serialized svg element,
\* a screenshot (PNG when no type is asked for), a PDF document
Produced(call) ==
    IF call = "serializeToString" THEN "<svg"
    ELSE IF call = "page.screenshot" THEN "89 50 4E 47 (.PNG)"
    ELSE "%PDF"

\* the content of a file or of a stream: a render's payload (the first bytes,
\* and the definition it was made from), text, or a log line
NoData == [kind |-> "none", format |-> <<>>, text |-> <<>>]
Payload(fmt, def) == [kind |-> "payload", format |-> Produced(CaptureBranch(fmt)), text |-> def]
Text(t) == [kind |-> "text", format |-> <<>>, text |-> t]
Line(t) == [kind |-> "line", format |-> <<>>, text |-> t]

NoResult == [title |-> <<>>, desc |-> <<>>, data |-> NoData]

\* the viewport before a page is made, and the viewport render_mermaid asks
\* for when the caller passes none
NoViewport == [width |-> 0, height |-> 0]
DefaultViewport == [width |-> 800, height |-> 600]

\* a run starts at the command (cli.py:75) or at render_mermaid_file (renderer.py:411)
Init ==
    \E sc \in Scenarios :
        /\ entry = sc.entry
        /\ pc = IF sc.entry = "cli" THEN "parse_options" ELSE "determine_format"
        /\ input = IF sc.entry = "cli" THEN sc.input ELSE <<>>
        /\ output = IF sc.entry = "cli" THEN sc.output ELSE <<>>
        /\ cli_output_format = IF sc.entry = "cli" THEN sc.format ELSE <<>>
        /\ quiet = sc.quiet
        /\ config_file = sc.config_file
        /\ playwright_config_file = sc.playwright_config_file
        /\ css_file = sc.css_file
        /\ theme = sc.theme
        /\ icon_packs = sc.icon_packs
        /\ background_color = sc.background_color
        /\ mermaid_config = {}
        /\ playwright_config = IF sc.entry = "api" THEN sc.playwright_config ELSE {}
        /\ config_json = sc.config_json
        /\ playwright_json = sc.playwright_json
        /\ files = sc.files
        /\ dirs = sc.dirs
        /\ made = {}
        /\ readonly = sc.readonly
        /\ src = sc.src
        /\ layout = sc.layout
        /\ input_file = IF sc.entry = "api" THEN sc.input ELSE <<>>
        /\ output_file = IF sc.entry = "api" THEN sc.output ELSE <<>>
        /\ output_format = IF sc.entry = "api" THEN sc.format ELSE <<>>
        /\ definition = <<>>
        /\ matches = <<>>
        /\ i = 0
        /\ image_data = <<>>
        /\ output_image = <<>>
        /\ output_image_relative = <<>>
        /\ title = <<>>
        /\ desc = <<>>
        /\ data = NoData
        /\ browser = "none"
        /\ page = "none"
        /\ result = NoResult
        /\ exc = "none"
        /\ launches = 0
        /\ closes = 0
        /\ calls = <<>>
        /\ evaluated = <<>>
        /\ viewport = NoViewport
        /\ appended = <<>>
        /\ writes = <<>>
        /\ stdout = <<>>
        /\ stderr = <<>>
        /\ exit_code = -1

\* ------------------------------------------------------- the command surface

\* the directory the operating system reaches by walking the components of a
\* path but the last, the empty sequence when one of them does not exist
ParentDir(path) ==
    LET comps == Split(IF StartsWith(path, <<"/">>) THEN path ELSE join(Cwd, path), "/")
        At[k \in 0..(Len(comps) - 1)] ==
            IF k = 0 THEN Root
            ELSE LET here == At[k - 1]
                     comp == comps[k]
                     there == IF comp = <<>> \/ comp = <<".">> THEN here
                              ELSE IF comp = <<".", ".">> THEN dirname(here)
                              ELSE join(here, comp)
                 IN  IF here = <<>> \/ there \notin dirs THEN <<>> ELSE there
    IN  At[Len(comps) - 1]

\* os.path.exists: the path leads to a directory or to a file
exists(p) ==
    \/ ParentDir(join(p, <<"x">>)) # <<>>
    \/ ParentDir(p) # <<>> /\ join(ParentDir(p), basename(p)) \in files

\* error() ending in sys.exit(0)
ErrorStatus_success == 1 - 1

\* sys.exit(1) of error()
ErrorStatus == 1

\* error(message): the message on stderr, then sys.exit(1)
error(message) ==
    /\ stderr' = Append(stderr, message)
    /\ exit_code' = ErrorStatus
    /\ pc' = "exited"

\* an exception nothing catches leaves main: the interpreter prints the
\* traceback on stderr and exits with status 1
Uncaught(kind) ==
    /\ stderr' = Append(stderr, "Traceback: " \o kind)
    /\ exit_code' = 1
    /\ pc' = "exited"

\* the extensions main accepts for --output
OutputSuffixes == {Ext_svg, Ext_png, Ext_pdf, Ext_md, Ext_markdown}

\* the values click.Choice(['svg', 'png', 'pdf']) accepts for --output-format
FormatChoices == {svg, png, pdf}

\* click parses the command line before main runs: a value of --output-format
\* outside the choices is a usage error, which click reports on stderr before
\* it exits with status 2
ParseOptions ==
    /\ pc = "parse_options"
    /\ IF cli_output_format # <<>> /\ cli_output_format \notin FormatChoices
       THEN /\ stderr' = Append(stderr, "usage: Invalid value for --output-format")
            /\ exit_code' = 2
            /\ pc' = "exited"
       ELSE /\ pc' = "check_input"
            /\ UNCHANGED <<stderr, exit_code>>
    /\ UNCHANGED <<entry, optVars, cliVars, envVars, argVars, fileVars, renderVars, writes, stdout, exc>>

\* main, "Check input file"
CheckInput ==
    /\ pc = "check_input"
    /\ IF input = <<>>
       THEN /\ stderr' = Append(stderr, "warning: No input file specified, reading from stdin")
            /\ pc' = "check_output"
            /\ UNCHANGED <<input, exit_code>>
       ELSE IF input = Dash
       THEN /\ input' = <<>>
            /\ pc' = "check_output"
            /\ UNCHANGED <<stderr, exit_code>>
       ELSE IF ~exists(input)
       THEN /\ error("Input file doesn't exist")
            /\ UNCHANGED input
       ELSE /\ pc' = "check_output"
            /\ UNCHANGED <<input, stderr, exit_code>>
    /\ UNCHANGED <<entry, optVars, output, cli_output_format, quiet, config_file,
                   playwright_config_file, css_file, envVars, argVars, fileVars,
                   renderVars, writes, stdout, exc>>

\* main, "Check output file"
CheckOutput ==
    /\ pc = "check_output"
    /\ IF output = <<>>
       THEN /\ output' = (IF input # <<>> THEN input ELSE Out) \o <<".">>
                         \o (IF cli_output_format # <<>> THEN cli_output_format ELSE svg)
            /\ pc' = "check_output_dir"
            /\ UNCHANGED <<quiet, cli_output_format, stderr, exit_code>>
       ELSE IF output = Dash
       THEN /\ output' = DevStdout
            /\ quiet' = TRUE
            /\ IF cli_output_format = <<>>
               THEN /\ cli_output_format' = svg
                    /\ stderr' = Append(stderr, "warning: No output format specified, using svg")
               ELSE UNCHANGED <<cli_output_format, stderr>>
            /\ pc' = "check_output_dir"
            /\ UNCHANGED exit_code
       ELSE IF \A suffix \in OutputSuffixes : ~EndsWith(Lower(output), suffix)
       THEN /\ error("Output file must end with .md/.markdown, .svg, .png or .pdf")
            /\ UNCHANGED <<output, quiet, cli_output_format>>
       ELSE /\ pc' = "check_output_dir"
            /\ UNCHANGED <<output, quiet, cli_output_format, stderr, exit_code>>
    /\ UNCHANGED <<entry, optVars, input, config_file, playwright_config_file, css_file, envVars,
                   argVars, fileVars, renderVars, writes, stdout, exc>>

\* main, "Check if output directory exists"
CheckOutputDir ==
    /\ pc = "check_output_dir"
    /\ LET output_dir == IF dirname(output) # <<>> THEN dirname(output) ELSE <<".">>
       IN  IF output # DevStdout /\ ~exists(output_dir)
           THEN error("Output directory doesn't exist")
           ELSE /\ pc' = "load_config"
                /\ UNCHANGED <<stderr, exit_code>>
    /\ UNCHANGED <<entry, optVars, cliVars, envVars, argVars, fileVars, renderVars, writes, stdout, exc>>

\* playwright_config = {'headless': True}
DefaultPlaywrightConfig == {<<"headless", "True">>}

\* a loader without check_config_file: a missing file is passed over
LoadJson_unchecked(state, next) ==
    IF state = "invalid" THEN Uncaught("ValueError")
    ELSE /\ pc' = next
         /\ UNCHANGED <<stderr, exit_code>>

\* check_config_file, then open and json.load and dict.update: the state the
\* file named by an option is in decides where the run goes
LoadJson(state, next) ==
    IF state = "missing" THEN error("Configuration file doesn't exist")
    ELSE IF state = "invalid" THEN Uncaught("ValueError")
    ELSE /\ pc' = next
         /\ UNCHANGED <<stderr, exit_code>>

\* main, "Load mermaid configuration"
LoadConfig ==
    /\ pc = "load_config"
    /\ LoadJson(config_file, "load_playwright_config")
    /\ mermaid_config' = IF config_file = "ok"
                         THEN Update({<<"theme", theme>>}, config_json)
                         ELSE {<<"theme", theme>>}
    /\ UNCHANGED <<entry, theme, icon_packs, background_color, playwright_config, config_json, playwright_json,
                   cliVars, envVars, argVars, fileVars, renderVars, writes, stdout, exc>>

\* main, "Load playwright configuration"
LoadPlaywrightConfig ==
    /\ pc = "load_playwright_config"
    /\ LoadJson(playwright_config_file, "load_css")
    /\ playwright_config' = IF playwright_config_file = "ok"
                            THEN Update(DefaultPlaywrightConfig, playwright_json)
                            ELSE DefaultPlaywrightConfig
    /\ UNCHANGED <<entry, theme, icon_packs, background_color, mermaid_config, config_json, playwright_json,
                   cliVars, envVars, argVars, fileVars, renderVars, writes, stdout, exc>>

\* main, "Load CSS file if specified"
LoadCss ==
    /\ pc = "load_css"
    /\ IF css_file = "missing" THEN error("CSS file doesn't exist")
       ELSE /\ pc' = "run_renderer"
            /\ UNCHANGED <<stderr, exit_code>>
    /\ UNCHANGED <<entry, optVars, cliVars, envVars, argVars, fileVars, renderVars, writes, stdout, exc>>

\* main, "Run the renderer": asyncio.run(render_mermaid_file(...))
RunRenderer ==
    /\ pc = "run_renderer"
    /\ input_file' = input
    /\ output_file' = output
    /\ output_format' = cli_output_format
    /\ pc' = "determine_format"
    /\ UNCHANGED <<entry, optVars, cliVars, envVars, fileVars, renderVars, outVars, exc>>

\* main: render_mermaid_file returned, main returns and the command exits with 0
ExitSuccess ==
    /\ entry = "cli"
    /\ pc = "returned"
    /\ exit_code' = 0
    /\ pc' = "exited"
    /\ UNCHANGED <<entry, optVars, cliVars, envVars, argVars, fileVars, renderVars, writes, stdout,
                   stderr, exc>>

\* main: except Exception as e: error(str(e))
CatchException ==
    /\ entry = "cli"
    /\ pc = "raised"
    /\ error("error: " \o exc)
    /\ UNCHANGED <<entry, optVars, cliVars, envVars, argVars, fileVars, renderVars, writes, stdout, exc>>

\* ------------------------------------------------------ render_mermaid_file

\* the check of the format with one more format let through
Formats_with_txt == {svg, png, pdf, <<"t", "x", "t">>}

\* ('svg', 'png', 'pdf')
Formats == {svg, png, pdf}

MarkdownSuffixes == {Ext_md, Ext_markdown}

\* path.lower().endswith(('.md', '.markdown'))
IsMarkdownPath(p) == \E suffix \in MarkdownSuffixes : EndsWith(Lower(p), suffix)

\* the inference without .lower(): the extension is compared as written
InferFormat_case_sensitive(out, fmt) ==
    LET ext == splitext(out)[2]
    IN  IF fmt # <<>> THEN fmt
        ELSE IF ext \in MarkdownSuffixes THEN svg
        ELSE IF ext # <<>> THEN Tail(ext)
        ELSE fmt

\* "Determine output format from file extension if not specified": the format
\* the run goes on with, the empty sequence where the code leaves None
InferFormat(out, fmt) ==
    LET ext == Lower(splitext(out)[2])
    IN  IF fmt # <<>> THEN fmt
        ELSE IF ext \in MarkdownSuffixes THEN svg
        ELSE IF ext # <<>> THEN Tail(ext)
        ELSE fmt

\* info(message): print unless quiet
info(message) == IF quiet THEN UNCHANGED stdout ELSE stdout' = Append(stdout, Line(message))

\* raise, out of render_mermaid_file
Raise(kind) ==
    /\ exc' = kind
    /\ pc' = "raised"

\* open(path, 'w' or 'wb') succeeds when the directory exists and can be written in
CanWrite(path) == ParentDir(path) # <<>> /\ ParentDir(path) \notin readonly

\* with open(path, mode) as f: f.write(content)
WriteFile(path, mode, content) ==
    /\ writes' = Append(writes, [path |-> abspath(path), mode |-> mode, content |-> content])
    /\ files' = files \cup {abspath(path)}

\* render_mermaid_file, the format and its check
DetermineFormat ==
    /\ pc = "determine_format"
    /\ LET fmt == InferFormat(output_file, output_format)
       IN  IF fmt \notin Formats
           THEN /\ Raise("ValueError: Output format must be one of svg, png or pdf")
                /\ UNCHANGED output_format
           ELSE /\ output_format' = fmt
                /\ pc' = "get_input_data"
                /\ UNCHANGED exc
    /\ UNCHANGED <<entry, optVars, cliVars, envVars, input_file, output_file, fileVars, renderVars,
                   outVars>>

\* _get_input_data: the file, or standard input, read as text
GetInputData ==
    /\ pc = "get_input_data"
    /\ IF input_file # <<>> /\ abspath(input_file) \notin files
       THEN /\ Raise("FileNotFoundError")
            /\ UNCHANGED definition
       ELSE /\ definition' = UniversalNewlines(src)
            /\ pc' = "make_dirs"
            /\ UNCHANGED exc
    /\ UNCHANGED <<entry, optVars, cliVars, envVars, argVars, matches, i, image_data, output_image,
                   output_image_relative, title, desc, data, appended, renderVars, outVars>>

\* render_mermaid_file without os.makedirs: no directory is created
MakeDirs_skipped ==
    /\ pc = "make_dirs"
    /\ pc' = "find_blocks"
    /\ UNCHANGED <<entry, optVars, cliVars, envVars, argVars, fileVars, renderVars, outVars, exc>>

\* os.makedirs(output_dir, exist_ok=True): the directory and those above it
\* that are missing are created, which the lowest existing one must allow
MakeDirs ==
    /\ pc = "make_dirs"
    /\ LET output_dir == dirname(abspath(output_file))
           existing == Ancestors(output_dir) \cap dirs
           lowest == CHOOSE d \in existing : \A e \in existing : Len(e) <= Len(d)
       IN  IF output_dir \in dirs
           THEN /\ pc' = "find_blocks"
                /\ UNCHANGED <<dirs, made, exc>>
           ELSE IF lowest \in readonly
           THEN /\ Raise("PermissionError")
                /\ UNCHANGED <<dirs, made>>
           ELSE /\ dirs' = dirs \cup Ancestors(output_dir)
                /\ made' = made \cup (Ancestors(output_dir) \ dirs)
                /\ pc' = "find_blocks"
                /\ UNCHANGED exc
    /\ UNCHANGED <<entry, optVars, cliVars, files, readonly, src, layout, argVars, fileVars,
                   renderVars, outVars>>

\* "Extract browser options from playwright_config": the keyword arguments of
\* chromium.launch
BrowserOptions(config) == {kv \in config : kv[1] = "headless"}

\* the call render_mermaid(definition, output_format, ...)
CallRender(def) ==
    /\ calls' = Append(calls, [definition |-> def, output_format |-> output_format,
                               outcome |-> "running", title |-> <<>>, desc |-> <<>>,
                               mermaid_config |-> mermaid_config,
                               browser_options |-> BrowserOptions(playwright_config)])
    /\ browser' = "none"
    /\ page' = "none"
    /\ result' = NoResult
    /\ pc' = "launch"
    /\ UNCHANGED <<evaluated, viewport>>

\* "Check if input is markdown": the blocks are searched, or the one diagram
\* is rendered
FindBlocks ==
    /\ pc = "find_blocks"
    /\ IF input_file # <<>> /\ IsMarkdownPath(input_file)
       THEN IF output_file = DevStdout
            THEN /\ Raise("ValueError: Cannot use stdout with markdown input")
                 /\ UNCHANGED <<matches, image_data, i, stdout, renderVars>>
            ELSE LET found == finditer(definition)
                 IN  /\ matches' = found
                     /\ IF found # <<>>
                        THEN /\ info(<<"Found", Str(Len(found)), "mermaid charts in Markdown input">>)
                             /\ image_data' = <<>>
                             /\ i' = 0
                             /\ pc' = "for_match"
                        ELSE /\ pc' = "no_blocks"
                             /\ UNCHANGED <<image_data, i, stdout>>
                     /\ UNCHANGED <<exc, renderVars>>
       ELSE /\ info(<<"Generating single mermaid chart">>)
            /\ CallRender(definition)
            /\ UNCHANGED <<matches, image_data, i, exc, launches, closes>>
    /\ UNCHANGED <<entry, optVars, cliVars, envVars, argVars, definition, output_image,
                   output_image_relative, title, desc, data, appended, writes, stderr,
                   exit_code>>

\* the sibling file numbered with enumerate's index as it is, from 0
SiblingPath_from_zero(out, k, fmt) ==
    join(dirname(abspath(out)),
         splitext(basename(out))[1] \o <<"-">> \o Str(k) \o <<".">> \o fmt)

\* the sibling file without the number of its block
SiblingPath_unnumbered(out, k, fmt) ==
    join(dirname(abspath(out)), splitext(basename(out))[1] \o <<".">> \o fmt)

\* the file of the block with index k (from 0), beside the destination
SiblingPath(out, k, fmt) ==
    join(dirname(abspath(out)),
         splitext(basename(out))[1] \o <<"-">> \o Str(k + 1) \o <<".">> \o fmt)

\* "Calculate relative path for embedding in markdown"
SiblingUrl(out, k, fmt) ==
    LET relative == relpath(SiblingPath(out, k, fmt), dirname(abspath(out)))
    IN  IF ~StartsWith(relative, <<".">>) THEN <<".", "/">> \o relative ELSE relative

\* the matches taken from the last to the first
NextMatch_reversed(ms, k) == ms[Len(ms) - k]

\* enumerate(matches): the match that comes with index k (from 0)
NextMatch(ms, k) == ms[k + 1]

\* for i, match in enumerate(matches): the paths of the block, then the call
\* of render_mermaid; after the last block, on to the substitution
ForMatch ==
    /\ pc = "for_match"
    /\ IF i < Len(matches)
       THEN /\ output_image' = SiblingPath(output_file, i, output_format)
            /\ output_image_relative' = SiblingUrl(output_file, i, output_format)
            /\ CallRender(group2(definition, NextMatch(matches, i)))
            /\ UNCHANGED <<launches, closes>>
       ELSE /\ pc' = "substitute"
            /\ UNCHANGED <<output_image, output_image_relative, renderVars>>
    /\ UNCHANGED <<entry, optVars, cliVars, envVars, argVars, definition, matches, i, image_data,
                   title, desc, data, appended, outVars, exc>>

\* the alt text without its default
AltOf_no_default(d) == d

\* 'alt': desc or 'diagram'
AltOf(d) == IF d # <<>> THEN d ELSE <<"d", "i", "a", "g", "r", "a", "m">>

\* the loop with the write of the block's file left out: the reference is
\* appended and the file is not there
WriteSibling_unwritten ==
    /\ pc = "write_sibling"
    /\ LET img == [url |-> output_image_relative, title |-> title, alt |-> AltOf(desc)]
       IN  /\ info(<<"done">> \o output_image_relative)
           /\ image_data' = Append(image_data, img)
           /\ appended' = Append(appended, img)
           /\ i' = i + 1
           /\ pc' = "for_match"
    /\ UNCHANGED <<entry, optVars, cliVars, envVars, argVars, definition, matches,
                   output_image, output_image_relative, title, desc, data, renderVars,
                   writes, exc, stderr, exit_code>>

\* "Write the output file" of a block, and image_data.append
WriteSibling ==
    /\ pc = "write_sibling"
    /\ IF ~CanWrite(output_image)
       THEN /\ Raise("PermissionError")
            /\ UNCHANGED <<files, writes, stdout, image_data, appended, i>>
       ELSE LET img == [url |-> output_image_relative, title |-> title, alt |-> AltOf(desc)]
            IN  /\ WriteFile(output_image, "wb", data)
                /\ info(<<"done">> \o output_image_relative)
                /\ image_data' = Append(image_data, img)
                /\ appended' = Append(appended, img)
                /\ i' = i + 1
                /\ pc' = "for_match"
                /\ UNCHANGED exc
    /\ UNCHANGED <<entry, optVars, cliVars, dirs, made, readonly, src, layout, argVars, definition, matches,
                   output_image, output_image_relative, title, desc, data, renderVars,
                   stderr, exit_code>>

\* "If output is markdown, replace mermaid code blocks with images"
Substitute ==
    /\ pc = "substitute"
    /\ IF IsMarkdownPath(output_file)
       THEN LET out_definition == sub(definition, image_data)
            IN  IF ~CanWrite(output_file)
                THEN /\ Raise("PermissionError")
                     /\ image_data' = out_definition.image_data
                     /\ UNCHANGED <<files, writes, stdout>>
                ELSE /\ image_data' = out_definition.image_data
                     /\ WriteFile(output_file, "w", Text(TextModeWrite(out_definition.text)))
                     /\ info(<<"done">> \o output_file)
                     /\ pc' = "returned"
                     /\ UNCHANGED exc
       ELSE /\ pc' = "returned"
            /\ UNCHANGED <<image_data, files, writes, stdout, exc>>
    /\ UNCHANGED <<entry, optVars, cliVars, dirs, made, readonly, src, layout, argVars, definition, matches, i,
                   output_image, output_image_relative, title, desc, data, appended,
                   renderVars, stderr, exit_code>>

\* "No mermaid charts found in Markdown input": the text read is written out
NoBlocks ==
    /\ pc = "no_blocks"
    /\ IF ~CanWrite(output_file)
       THEN /\ Raise("PermissionError")
            /\ info(<<"No mermaid charts found in Markdown input">>)
            /\ UNCHANGED <<files, writes>>
       ELSE /\ WriteFile(output_file, "w", Text(TextModeWrite(definition)))
            /\ IF quiet THEN UNCHANGED stdout
               ELSE stdout' = stdout \o <<Line(<<"No mermaid charts found in Markdown input">>),
                                          Line(<<"done">> \o output_file)>>
            /\ pc' = "returned"
            /\ UNCHANGED exc
    /\ UNCHANGED <<entry, optVars, cliVars, dirs, made, readonly, src, layout, argVars, fileVars, renderVars,
                   stderr, exit_code>>

\* "Render a single mermaid diagram": the payload goes to stdout or to the file
WriteSingle ==
    /\ pc = "write_single"
    /\ IF output_file = DevStdout
       THEN /\ stdout' = Append(stdout, data)
            /\ pc' = "returned"
            /\ UNCHANGED <<files, writes, exc>>
       ELSE IF ~CanWrite(output_file)
       THEN /\ Raise("PermissionError")
            /\ UNCHANGED <<files, writes, stdout>>
       ELSE /\ WriteFile(output_file, "wb", data)
            /\ pc' = "returned"
            /\ UNCHANGED <<stdout, exc>>
    /\ UNCHANGED <<entry, optVars, cliVars, dirs, made, readonly, src, layout, argVars, fileVars, renderVars,
                   stderr, exit_code>>

\* ------------------------------------------------------------ render_mermaid

\* the title and the description of the rendered SVG come from the definition
\* (accTitle, accDescr): the definitions that start with a letter of Titled
\* are taken to state a title, those that start with a letter of Described a
\* description, the others neither
Titled == {"A", "C", "g"}
Described == {"A", "E", "g"}

\* a child node of the svg element
Node(tag, text) == [tag |-> tag, text |-> text]

\* the children of the svg element mermaid.render made of a definition: the
\* title when one is stated, the description when one is stated, the drawing;
\* for the definitions that start with "D" a style element stands before the
\* title
SvgOf(def) ==
    IF def # <<>> /\ Head(def) = "D"
    THEN <<Node("style", <<>>), Node("title", <<"T", "2">>), Node("g", <<>>)>>
    ELSE (IF def # <<>> /\ Head(def) \in Titled
          THEN <<Node("title", <<"T", "\"", "[", "t">>)>> ELSE <<>>)
         \o (IF def # <<>> /\ Head(def) \in Described
             THEN <<Node("desc", <<"[", "D", "\"", "]">>)>> ELSE <<>>)
         \o <<Node("g", <<>>)>>

\* if (svg.firstChild && svg.firstChild.tagName === 'title')
ExtractTitle(children) ==
    IF children # <<>> /\ children[1].tag = "title" THEN children[1].text ELSE <<>>

\* for (const svgNode of svg.children): the first child that is a desc
ExtractDesc(children) ==
    LET found == {k \in 1..Len(children) : children[k].tag = "desc"}
    IN  IF found = {} THEN <<>> ELSE children[Min(found)].text

\* return { title, desc }
MetaOf(def) ==
    [title |-> ExtractTitle(SvgOf(def)), desc |-> ExtractDesc(SvgOf(def))]

\* the definition and the format of the call in progress
CurrentCall == calls[Len(calls)]

\* the call in progress ends, with what it hands back when it returns
EndCall(outcome) ==
    calls' = [calls EXCEPT ![Len(calls)] =
                 [@ EXCEPT !.outcome = outcome,
                           !.title = IF outcome = "returned" THEN result.title ELSE <<>>,
                           !.desc = IF outcome = "returned" THEN result.desc ELSE <<>>]]

\* the awaited steps of render_mermaid, and the errors they raise
RenderSteps == {"launch", "new_page", "goto", "set_background", "inject", "render", "capture"}
RenderErrors == {"Error: " \o step : step \in RenderSteps}

\* a try block without its finally clause: the exception goes straight to
\* the caller
OnRaiseInTry_no_finally == "raised"

\* where an exception raised inside the try block goes: the finally clause
OnRaiseInTry == "finally"

\* lengths the page reports are fractions of a pixel: a length is held as the
\* number of its Den-th parts
Den == 10

\* Math.floor and Math.ceil of a length that is not negative, in pixels
Floor(x) == x \div Den
Ceil(x) == (x + Den - 1) \div Den

\* svg.getBoundingClientRect() of the rendered diagram, a function of the
\* definition: a box at whole pixels, and for the definitions that start with
\* "g" or "D" a box whose edges stand between pixels
RectOf(def) ==
    IF def # <<>> /\ Head(def) \in {"g", "D"}
    THEN [left |-> 5, top |-> 83, width |-> 16, height |-> 12]
    ELSE [left |-> 80, top |-> 80, width |-> 1200, height |-> 400]

\* the clip the page returns: x, y, width and height in whole pixels
ClipOf(rect) ==
    [x |-> Floor(rect.left), y |-> Floor(rect.top),
     width |-> Ceil(rect.width), height |-> Ceil(rect.height)]

\* page.set_viewport_size: "Resize viewport to fit the diagram"
ViewportFor(clip) == [width |-> clip.x + clip.width, height |-> clip.y + clip.height]

\* an awaited step of the try block: it completes, or it raises and control
\* passes to the finally clause
Step(at, next) ==
    /\ pc = at
    /\ \/ /\ page' = at
          /\ pc' = next
          /\ UNCHANGED exc
       \/ /\ exc' = "Error: " \o at
          /\ pc' = OnRaiseInTry
          /\ UNCHANGED page

\* browser = await p.chromium.launch(**browser_options), before the try block
Launch ==
    /\ pc = "launch"
    /\ \/ /\ browser' = "open"
          /\ launches' = launches + 1
          /\ pc' = "new_page"
          /\ UNCHANGED <<exc, calls>>
       \/ /\ Raise("Error: launch")
          /\ EndCall("raised")
          /\ UNCHANGED <<browser, launches>>
    /\ UNCHANGED <<entry, evaluated, viewport, optVars, cliVars, envVars, argVars, fileVars, page, result, closes, outVars>>

\* page = await browser.new_page(viewport=viewport)
NewPage ==
    /\ Step("new_page", "goto")
    /\ viewport' = IF exc' = "none" THEN DefaultViewport ELSE viewport
    /\ UNCHANGED <<entry, evaluated, optVars, cliVars, envVars, argVars, fileVars, browser, result, launches,
                   closes, calls, outVars>>

\* await page.goto(the template)
Goto ==
    /\ Step("goto", "set_background")
    /\ UNCHANGED <<entry, evaluated, viewport, optVars, cliVars, envVars, argVars, fileVars, browser, result, launches,
                   closes, calls, outVars>>

RECURSIVE JsonChars(_)
\* json.dumps of the characters of a str: the quotation mark, the reverse
\* solidus and the line feed are escaped
JsonChars(t) ==
    IF t = <<>> THEN <<>>
    ELSE (IF Head(t) \in {"\"", "\\"} THEN <<"\\", Head(t)>>
          ELSE IF Head(t) = "\n" THEN <<"\\", "n">>
          ELSE <<Head(t)>>) \o JsonChars(Tail(t))

\* json.dumps of a str
JsonString(t) == <<"\"">> \o JsonChars(t) \o <<"\"">>

RECURSIVE JsonItems(_)
\* the items of a list or of a dict, each already serialised, joined by ", "
JsonItems(items) ==
    IF items = <<>> THEN <<>>
    ELSE IF Len(items) = 1 THEN items[1]
    ELSE items[1] \o <<",", " ">> \o JsonItems(Tail(items))

\* json.dumps of a list of str
JsonList(l) == <<"[">> \o JsonItems([k \in 1..Len(l) |-> JsonString(<<l[k]>>)]) \o <<"]">>

RECURSIVE JsonPairs(_)
\* the items of a dict, one after the other
JsonPairs(d) ==
    IF d = {} THEN <<>>
    ELSE LET kv == CHOOSE x \in d : TRUE
         IN  <<JsonString(<<kv[1]>>) \o <<":", " ">> \o JsonString(<<kv[2]>>)>>
             \o JsonPairs(d \ {kv})

\* json.dumps of a dict of str
JsonDict(d) == <<"{">> \o JsonItems(JsonPairs(d)) \o <<"}">>

\* the script of "Set background color": the value stands between two single
\* quotes, as it is
BackgroundScript(colour) ==
    <<"document.body.style.background", " ", "=", " ", "'">> \o colour \o <<"'">>

\* "window.<name> = " + json.dumps(value)
Assignment(name, json) == <<"window." \o name, " ", "=", " ">> \o json

\* the six scripts of "Set variables in the page context"
InjectScripts(def, config, css, colour, svg_id, packs) ==
    <<Assignment("mermaidDefinition", JsonString(def)),
      Assignment("mermaidConfig", JsonDict(config)),
      Assignment("cssContent", JsonString(css)),
      Assignment("bgColor", JsonString(colour)),
      Assignment("svgId", JsonString(svg_id)),
      Assignment("iconPacks", JsonList(packs))>>

\* await page.evaluate("document.body.style.background = ...")
SetBackground ==
    /\ Step("set_background", "inject")
    /\ evaluated' = IF exc' = "none" THEN Append(evaluated, BackgroundScript(background_color))
                    ELSE evaluated
    /\ UNCHANGED <<entry, viewport, optVars, cliVars, envVars, argVars, fileVars, browser, result, launches,
                   closes, calls, outVars>>

\* the six page.evaluate calls that set the page's variables
Inject ==
    /\ Step("inject", "render")
    /\ evaluated' = IF exc' = "none"
                    THEN evaluated \o InjectScripts(CurrentCall.definition,
                                                    CurrentCall.mermaid_config,
                                                    IF css_file = "ok" THEN CssContent ELSE <<>>,
                                                    background_color, <<>>, icon_packs)
                    ELSE evaluated
    /\ UNCHANGED <<entry, viewport, optVars, cliVars, envVars, argVars, fileVars, browser, result, launches,
                   closes, calls, outVars>>

\* result = await page.evaluate(the render script); title and desc are read
\* from what it returns.  With icon packs the script may call console.error
\* for a pack it cannot fetch; log_console prints the message on stdout
RenderScript ==
    /\ Step("render", "capture")
    /\ IF pc' = "capture" /\ icon_packs # <<>>
       THEN \/ UNCHANGED stdout
            \/ stdout' = Append(stdout, Line(<<"Browser console: Failed to fetch icon">>))
       ELSE UNCHANGED stdout
    /\ IF pc' = "capture"
       THEN result' = [result EXCEPT !.title = MetaOf(CurrentCall.definition).title,
                                     !.desc = MetaOf(CurrentCall.definition).desc]
       ELSE UNCHANGED result
    /\ UNCHANGED <<entry, evaluated, viewport, optVars, cliVars, envVars, argVars, fileVars, browser, launches, closes,
                   calls, writes, stderr, exit_code>>

\* "Generate output based on the requested format", then return title, desc, data:
\* the finally clause runs before the caller gets the value
Capture ==
    /\ Step("capture", "finally")
    /\ viewport' = IF exc' = "none" /\ CaptureBranch(CurrentCall.output_format) = "page.screenshot"
                   THEN ViewportFor(ClipOf(RectOf(CurrentCall.definition)))
                   ELSE viewport
    /\ IF exc' = "none"
       THEN result' = [result EXCEPT !.data = Payload(CurrentCall.output_format,
                                                      CurrentCall.definition)]
       ELSE UNCHANGED result
    /\ UNCHANGED <<entry, evaluated, optVars, cliVars, envVars, argVars, fileVars, browser, launches, closes,
                   calls, outVars>>

\* render_mermaid_file with the call of render_mermaid wrapped in
\* try/except/continue: a failed block is skipped
Finally_skip_failed ==
    /\ pc = "finally"
    /\ browser' = "closed"
    /\ closes' = closes + 1
    /\ IF exc = "none"
       THEN /\ title' = result.title
            /\ desc' = result.desc
            /\ data' = result.data
            /\ EndCall("returned")
            /\ pc' = IF input_file # <<>> /\ IsMarkdownPath(input_file)
                     THEN "write_sibling" ELSE "write_single"
            /\ UNCHANGED <<i, exc>>
       ELSE /\ EndCall("raised")
            /\ pc' = IF input_file # <<>> /\ IsMarkdownPath(input_file)
                     THEN "for_match" ELSE "raised"
            /\ i' = i + 1
            /\ exc' = "none"
            /\ UNCHANGED <<title, desc, data>>
    /\ UNCHANGED <<entry, evaluated, viewport, optVars, cliVars, envVars, argVars, definition, matches, image_data,
                   output_image, output_image_relative, appended, page, result, launches,
                   outVars>>

\* render_mermaid without browser.close(): the session stays open when the
\* call ends
Finally_no_close ==
    /\ pc = "finally"
    /\ IF exc = "none"
       THEN /\ title' = result.title
            /\ desc' = result.desc
            /\ data' = result.data
            /\ EndCall("returned")
            /\ pc' = IF input_file # <<>> /\ IsMarkdownPath(input_file)
                     THEN "write_sibling" ELSE "write_single"
       ELSE /\ EndCall("raised")
            /\ pc' = "raised"
            /\ UNCHANGED <<title, desc, data>>
    /\ UNCHANGED <<entry, evaluated, viewport, optVars, cliVars, envVars, argVars, definition, matches, i, image_data,
                   output_image, output_image_relative, appended, browser, page, result,
                   launches, closes, outVars, exc>>

\* finally: await browser.close(); then the value is returned, or the
\* exception goes on to the caller
Finally ==
    /\ pc = "finally"
    /\ browser' = "closed"
    /\ closes' = closes + 1
    /\ IF exc = "none"
       THEN /\ title' = result.title
            /\ desc' = result.desc
            /\ data' = result.data
            /\ EndCall("returned")
            /\ pc' = IF input_file # <<>> /\ IsMarkdownPath(input_file)
                     THEN "write_sibling" ELSE "write_single"
       ELSE /\ EndCall("raised")
            /\ pc' = "raised"
            /\ UNCHANGED <<title, desc, data>>
    /\ UNCHANGED <<entry, evaluated, viewport, optVars, cliVars, envVars, argVars, definition, matches, i, image_data,
                   output_image, output_image_relative, appended, page, result, launches,
                   outVars, exc>>

\* ------------------------------------------------------------ specification

Next ==
    \/ ParseOptions
    \/ CheckInput
    \/ CheckOutput
    \/ CheckOutputDir
    \/ LoadConfig
    \/ LoadPlaywrightConfig
    \/ LoadCss
    \/ RunRenderer
    \/ ExitSuccess
    \/ CatchException
    \/ DetermineFormat
    \/ GetInputData
    \/ MakeDirs
    \/ FindBlocks
    \/ ForMatch
    \/ WriteSibling
    \/ Substitute
    \/ NoBlocks
    \/ WriteSingle
    \/ Launch
    \/ NewPage
    \/ Goto
    \/ SetBackground
    \/ Inject
    \/ RenderScript
    \/ Capture
    \/ Finally

Spec == Init /\ [][Next]_vars

\* ------------------------------------------------------------------- claims

\* the statements of render_mermaid
RenderPcs == {"launch", "new_page", "goto", "set_background", "inject", "render", "capture",
              "finally"}

\* the run is on Markdown input
MarkdownInput == input_file # <<>> /\ IsMarkdownPath(input_file)

\* the writes of sibling files, in order
SiblingWrites == SelectSeq(writes, LAMBDA w : w.mode = "wb")

\* what render_mermaid_file held as title, desc and data before call k
HeldBefore(k) ==
    IF k = 1 THEN NoResult
    ELSE [title |-> calls[k - 1].title, desc |-> calls[k - 1].desc,
          data |-> Payload(calls[k - 1].output_format, calls[k - 1].definition)]

\* C1: in render_mermaid a browser that was launched is closed exactly once on
\* every way out, the return and an exception of any step after the launch: no
\* call has returned or raised with its browser open, and a call that raised
\* has handed nothing to its caller, whose title, desc and data are as before it.
C1_BrowserClosedOnce ==
    /\ closes <= launches
    /\ launches <= closes + 1
    /\ launches <= Len(calls)
    /\ pc \notin RenderPcs => browser # "open" /\ closes = launches
    /\ pc \in RenderPcs \ {"launch"} => (browser = "open" <=> pc # "finally" \/ closes < launches)
    /\ (calls # <<>> /\ CurrentCall.outcome # "running") =>
           /\ browser # "open"
           /\ closes = launches
    /\ (calls # <<>> /\ CurrentCall.outcome = "raised") =>
           [title |-> title, desc |-> desc, data |-> data] = HeldBefore(Len(calls))

\* the capture of the second block raised, after the first call returned: both
\* browsers are closed
C1_Witness ==
    /\ pc = "raised"
    /\ exc = "Error: capture"
    /\ Len(calls) = 2
    /\ launches = 2
    /\ closes = 2
    /\ browser = "closed"

\* the image reference of block k: the sibling URL, and the title and the
\* description the k-th call of render_mermaid returned
ReferenceOf(k) ==
    create_markdown_image(appended[k].url, calls[k].title,
                          IF calls[k].desc # <<>> THEN calls[k].desc
                          ELSE <<"d", "i", "a", "g", "r", "a", "m">>)

RECURSIVE Rebuilt(_, _)
\* the text from position pos on, the spans of the matches from k on replaced by
\* their references
Rebuilt(pos, k) ==
    IF k > Len(matches) THEN Slice(definition, pos, Len(definition) + 1)
    ELSE Slice(definition, pos, matches[k].start) \o ReferenceOf(k)
         \o Rebuilt(matches[k].stop, k + 1)

\* C2: Markdown input, Markdown destination, N >= 1 blocks: the text written to
\* the destination is the text read with the span of the k-th match replaced by
\* the reference built from the k-th render result, everything outside the
\* spans kept as it is and in order, and every reference used exactly once.
C2_Substitution ==
    (pc = "returned" /\ MarkdownInput /\ IsMarkdownPath(output_file) /\ matches # <<>>) =>
        /\ Len(appended) = Len(matches)
        /\ Len(calls) = Len(matches)
        /\ image_data = <<>>
        /\ writes[Len(writes)] = [path |-> abspath(output_file), mode |-> "w",
                                  content |-> Text(Rebuilt(1, 1))]

\* two blocks were replaced, the first render carrying a title and a description
C2_Witness ==
    /\ pc = "returned"
    /\ MarkdownInput
    /\ IsMarkdownPath(output_file)
    /\ Len(matches) = 2
    /\ calls[1].title # <<>>
    /\ calls[2].title = <<>>
    /\ writes[Len(writes)].mode = "w"

\* <destination stem>-<k>.<format> in the destination's directory
ExpectedSibling(k) ==
    LET dir == dirname(abspath(output_file))
        base == basename(output_file)
        stem == SubSeq(base, 1, Len(base) - Len(splitext(base)[2]))
    IN  (IF dir = Root THEN dir ELSE dir \o <<"/">>)
        \o stem \o <<"-">> \o Str(k) \o <<".">> \o output_format

\* C3: when render_mermaid_file succeeds on Markdown input with N blocks it has
\* written exactly N sibling files, the k-th (k = 1..N, in source order) being
\* <destination stem>-<k>.<format> in the destination's directory with the
\* render of block k, and every other write goes to the destination itself.
C3_SiblingFiles ==
    (pc = "returned" /\ MarkdownInput) =>
        /\ Len(SiblingWrites) = Len(matches)
        /\ \A k \in 1..Len(matches) :
               SiblingWrites[k] =
                   [path |-> ExpectedSibling(k), mode |-> "wb",
                    content |-> Payload(output_format, group2(definition, matches[k]))]
        /\ \A k \in 1..Len(writes) :
               writes[k].mode # "wb" => writes[k].path = abspath(output_file)

\* a run on two blocks succeeded, with a destination whose stem holds a dot
C3_Witness ==
    /\ pc = "returned"
    /\ MarkdownInput
    /\ Len(matches) = 2
    /\ Len(SiblingWrites) = 2
    /\ basename(output_file) = <<"a", ".", "b">> \o Ext_svg

RECURSIVE SizeOf(_)
\* the length of lines, each with its line feed
SizeOf(lines) == IF lines = <<>> THEN 0 ELSE Len(Head(lines)) + 1 + SizeOf(Tail(lines))

\* where block k of the layout starts in the text read, and where its closing
\* line ends
FenceStart(k) ==
    LET pre == IF layout.style.text THEN Len(TextLine) + 1 ELSE 0
        Upto[j \in 0..(k - 1)] ==
            IF j = 0 THEN 1 + pre ELSE Upto[j - 1] + SizeOf(layout.blocks[j]) + pre
    IN  Upto[k - 1]
FenceStop(k) == FenceStart(k) + SizeOf(layout.blocks[k]) - 1

\* C4: the matches found in a text are finitely many, do not overlap and start
\* at strictly increasing offsets, one for each mermaid fence of the text: N
\* fences give N matches, and the k-th match is the k-th fence from the top (it
\* starts where the fence's opening line starts and stops within the fence).
C4_Extraction ==
    (MarkdownInput /\ pc \in {"for_match", "no_blocks"}) =>
        /\ Len(matches) = Len(layout.blocks)
        /\ \A k \in 1..Len(matches) :
               /\ matches[k].start = FenceStart(k)
               /\ matches[k].start < matches[k].bstart
               /\ matches[k].bstart <= matches[k].bstop
               /\ matches[k].bstop < matches[k].stop
               /\ matches[k].stop <= FenceStop(k)
               /\ k < Len(matches) => matches[k].stop <= matches[k + 1].start

\* two fences with nothing between them, the first closed by the other
\* delimiter, were found as two matches
C4_Witness ==
    /\ pc = "for_match"
    /\ MarkdownInput
    /\ ~layout.style.text
    /\ Len(matches) = 2
    /\ group2(definition, matches[1]) = <<"B", "\n">>
    /\ matches[2].start = matches[1].stop + 1

\* C5: Markdown input without a block: render_mermaid_file returns without an
\* error, calls no render, and writes the destination with the bytes of the
\* source file, line terminators included.
C5_Passthrough ==
    (pc = "returned" /\ MarkdownInput /\ matches = <<>>) =>
        /\ exc = "none"
        /\ calls = <<>>
        /\ launches = 0
        /\ writes = <<[path |-> abspath(output_file), mode |-> "w", content |-> Text(src)]>>

\* C6: when the render of block k of a Markdown input raises, render_mermaid_file
\* raises that error, without catching it and without another call: the sibling
\* files of blocks 1..k-1 are the files written, none is written for block k or
\* a later one, and the destination is not written.
C6_RenderFailure ==
    (MarkdownInput /\ calls # <<>> /\ CurrentCall.outcome = "raised") =>
        LET k == Len(calls)
        IN  /\ pc \in {"raised", "exited"}
            /\ exc \in RenderErrors
            /\ k <= Len(matches)
            /\ \A j \in 1..k : calls[j].definition = group2(definition, matches[j])
            /\ \A j \in 1..(k - 1) : calls[j].outcome = "returned"
            /\ i = k - 1
            /\ Len(writes) = k - 1
            /\ \A j \in 1..(k - 1) : writes[j].mode = "wb" /\ writes[j].path = ExpectedSibling(j)
            /\ abspath(output_file) \notin {writes[j].path : j \in 1..Len(writes)}

\* the render script of the second block raised: the first sibling file is
\* there and nothing else
C6_Witness ==
    /\ MarkdownInput
    /\ IsMarkdownPath(output_file)
    /\ pc = "raised"
    /\ exc = "Error: render"
    /\ Len(calls) = 2
    /\ Len(writes) = 1
    /\ abspath(output_file) \notin files

\* the directories that were there when the run started
StartDirs == dirs \ made

\* the statements of main before the renderer runs
CheckPcs == {"parse_options", "check_input", "check_output", "check_output_dir", "load_config",
             "load_playwright_config", "load_css"}

\* the configuration errors of a command line, on the options as main holds them
MissingInput == input \notin {<<>>, Dash} /\ abspath(input) \notin files \cup StartDirs
FixedOutput == output \notin {<<>>, Dash, DevStdout}
BadExtension == FixedOutput /\ \A suffix \in OutputSuffixes : ~EndsWith(Lower(output), suffix)
MissingOutputDir == FixedOutput /\ dirname(abspath(output)) \notin StartDirs
UnwritableOutputDir == FixedOutput /\ dirname(abspath(output)) \in readonly
MissingConfig == config_file = "missing" \/ playwright_config_file = "missing"
MissingCss == css_file = "missing"

\* a command line with such an error ends in main, before the renderer: no
\* browser is launched and render_mermaid is not called
EndsBeforeRenderer ==
    /\ pc \in CheckPcs \cup {"exited"}
    /\ launches = 0
    /\ calls = <<>>
    /\ writes = <<>>

Warnings == {"warning: No input file specified, reading from stdin",
             "warning: No output format specified, using svg"}

\* the whole run succeeded: what was asked for has been delivered, the payload
\* on stdout, or a sibling file for every block, or the destination written
Delivered ==
    /\ exc = "none"
    /\ IF output = DevStdout
       THEN \E k \in 1..Len(stdout) : stdout[k].kind = "payload"
       ELSE /\ MarkdownInput => Len(SiblingWrites) = Len(matches)
            /\ (MarkdownInput /\ ~IsMarkdownPath(output) /\ matches # <<>>)
               \/ \E k \in 1..Len(writes) : writes[k].path = abspath(output)

\* the command line holds a value click rejects
UsageError == cli_output_format # <<>> /\ cli_output_format \notin FormatChoices

\* C8 as stated: the command exits with 0 exactly when the whole run succeeded,
\* and with 1 after a message on stderr for every validation failure and every
\* rendering failure, any exception render_mermaid_file raises included.
C8_Stated ==
    (entry = "cli" /\ pc = "exited") =>
        /\ exit_code = 0 <=> Delivered
        /\ ~Delivered => exit_code = 1 /\ stderr # <<>> /\ stderr[Len(stderr)] \notin Warnings

\* C8: the command exits with 0 exactly when the whole run succeeded; every
\* failure of a check of main and every failure of the rendering, any exception
\* render_mermaid_file raises included, ends with status 1 after a message on
\* stderr; an option value click rejects ends with status 2 after a usage
\* message on stderr.
C8_ExitCodes ==
    (entry = "cli" /\ pc = "exited") =>
        /\ exit_code \in {0, 1, 2}
        /\ exit_code = 0 <=> Delivered
        /\ exit_code = 2 <=> UsageError
        /\ exit_code # 0 => stderr # <<>> /\ stderr[Len(stderr)] \notin Warnings
        /\ exc # "none" => exit_code = 1 /\ stderr[Len(stderr)] = "error: " \o exc

\* the command ended with 1 on an exception of the renderer
C8_Witness ==
    /\ entry = "cli"
    /\ pc = "exited"
    /\ exit_code = 1
    /\ exc = "Error: goto"
    /\ stderr[Len(stderr)] = "error: Error: goto"

\* the extension of the destination, in lower case and without its dot
LowerExtension == Lower(splitext(output_file)[2])

\* the format the run must go on with: the one given, or the one the
\* destination's extension stands for
ExpectedFormat ==
    IF output_format # <<>> THEN output_format
    ELSE IF LowerExtension \in {Ext_md, Ext_markdown, Ext_svg} THEN svg
    ELSE IF LowerExtension = Ext_png THEN png
    ELSE IF LowerExtension = Ext_pdf THEN pdf
    ELSE <<"?">>

\* C9: render_mermaid_file uses an output_format that is given as it is; when
\* none is given it infers the format from the destination's extension, in any
\* case of letters: .md and .markdown give svg, .svg, .png and .pdf their format.
\* A format outside svg, png, pdf, that of a destination without an extension
\* included, raises ValueError.
C9_FormatInference ==
    [][pc = "determine_format" =>
           IF ExpectedFormat \in {svg, png, pdf}
           THEN output_format' = ExpectedFormat /\ pc' = "get_input_data" /\ exc' = "none"
           ELSE /\ pc' = "raised"
                /\ exc' = "ValueError: Output format must be one of svg, png or pdf"]_vars

\* no format was given and the destination ends in .PNG: the run goes on with png
C9_Witness ==
    /\ entry = "cli"
    /\ cli_output_format = <<>>
    /\ output_file = Out \o <<".", "P", "N", "G">>
    /\ output_format = png
    /\ pc = "get_input_data"

\* C10: for every destination and every block, the sibling URL embedded in the
\* Markdown output starts with ./ or ../
C10_RelativeUrl ==
    \A k \in 1..Len(appended) :
        \/ StartsWith(appended[k].url, <<".", "/">>)
        \/ StartsWith(appended[k].url, <<".", ".", "/">>)

\* s with a backslash put before each of its characters that is in cs, built
\* position by position
Escaped(s, cs) ==
    LET At[k \in 0..Len(s)] ==
            IF k = 0 THEN <<>>
            ELSE At[k - 1] \o (IF s[k] \in cs THEN <<"\\">> ELSE <<>>) \o <<s[k]>>
    IN  At[Len(s)]

\* ![A](url) without a title and ![A](url "T") with one
ImageSyntax(url, t, alt) ==
    <<"!", "[">> \o Escaped(alt, {"[", "]"}) \o <<"]", "(">> \o url
    \o (IF t = <<>> THEN <<>> ELSE <<" ", "\"">> \o Escaped(t, {"\""}) \o <<"\"">>)
    \o <<")">>

\* C11: _create_markdown_image(url, title, alt) returns ![A](url) when there
\* is no title and ![A](url "T") when there is one, A being alt with a
\* backslash before every [ and ], T being title with a backslash before every
\* ", and url copied as it is.
C11_ImageSyntax ==
    \A k \in 1..Len(appended) :
        create_markdown_image(appended[k].url, appended[k].title, appended[k].alt)
            = ImageSyntax(appended[k].url, appended[k].title, appended[k].alt)

\* the destination was written with two references, one with a title that
\* holds a quote and a bracket, one without a title and with brackets and a
\* quote in its alt text
C11_Witness ==
    /\ pc = "returned"
    /\ MarkdownInput
    /\ IsMarkdownPath(output_file)
    /\ Len(appended) = 2
    /\ appended[1].title = <<"T", "\"", "[", "t">>
    /\ appended[2].title = <<>>
    /\ appended[2].alt = <<"[", "D", "\"", "]">>

\* sub occurs in t as a run of consecutive characters
Contains(t, part) ==
    \E p \in 1..(Len(t) - Len(part) + 1) : SubSeq(t, p, p + Len(part) - 1) = part

\* the destination out.md and what the claim expects around it
OutMd == Out \o Ext_md
DiagramReference ==
    <<"!", "[", "d", "i", "a", "g", "r", "a", "m", "]", "(", ".", "/",
      "o", "u", "t", "-", "1", ".", "s", "v", "g", ")">>

\* C12: the alt text of every image reference is the description of its render
\* when there is one and the word diagram otherwise, and its title is the
\* render's title; a Markdown input with one block whose render has neither,
\* sent to out.md, gives a destination that holds ![diagram](./out-1.svg) and a
\* sibling file out-1.svg that holds the payload.
C12_AltAndTitle ==
    /\ \A k \in 1..Len(appended) :
           /\ k <= Len(calls)
           /\ appended[k].title = calls[k].title
           /\ appended[k].alt = IF calls[k].desc # <<>> THEN calls[k].desc
                                ELSE <<"d", "i", "a", "g", "r", "a", "m">>
    /\ (/\ pc = "returned"
        /\ MarkdownInput
        /\ output_file = OutMd
        /\ output_format = svg
        /\ Len(matches) = 1
        /\ calls[1].title = <<>>
        /\ calls[1].desc = <<>>) =>
           /\ Contains(writes[Len(writes)].content.text, DiagramReference)
           /\ writes[Len(writes)].path = Cwd \o <<"/">> \o OutMd
           /\ writes[1] = [path |-> Cwd \o <<"/", "o", "u", "t", "-", "1", ".", "s", "v", "g">>,
                           mode |-> "wb",
                           content |-> Payload(svg, group2(definition, matches[1]))]

\* one block without title and description went to out.md
C12_Witness ==
    /\ pc = "returned"
    /\ MarkdownInput
    /\ output_file = OutMd
    /\ Len(matches) = 1
    /\ calls[1].title = <<>>
    /\ calls[1].desc = <<>>
    /\ output_format = svg
    /\ Len(writes) = 2

\* C13: with the destination - (mapped to /dev/stdout) a successful run on a
\* single diagram writes the payload to standard output and nothing else, no
\* log line, no line of the browser's console, no line feed after it, and
\* writes no file.
C13_StdoutPayloadOnly ==
    (entry = "cli" /\ output = DevStdout /\ pc = "exited" /\ exit_code = 0) =>
        /\ stdout = <<Payload(output_format, definition)>>
        /\ writes = <<>>

\* the options chromium.launch runs with: what it was given, headless where it
\* was not given
EffectiveLaunch(options) ==
    options \cup (IF "headless" \in Keys(options) THEN {} ELSE {<<"headless", "True">>})

\* C14: every render launches the browser once, with the options {headless:
\* true} overridden and extended by the browser configuration of the caller:
\* every key of the merged configuration reaches the launch.
C14_LaunchOptions ==
    /\ launches <= Len(calls)
    /\ \A k \in 1..Len(calls) :
           EffectiveLaunch(calls[k].browser_options) = EffectiveLaunch(playwright_config)

\* what the claim gives for the mermaid configuration: the items of the file,
\* and the theme of the command line when the file has none
ExpectedMermaidConfig ==
    LET file == IF config_file = "ok" THEN config_json ELSE {}
    IN  file \cup (IF \E kv \in file : kv[1] = "theme" THEN {} ELSE {<<"theme", theme>>})

\* C15: the mermaid configuration the renderer gets is {theme: the value of
\* -t} updated with the top-level keys of the configuration file when there is
\* one: a key of the file, theme included, wins over the command line, and a
\* key the file does not hold keeps its default.
C15_MermaidConfig ==
    entry = "cli" =>
        /\ \A k \in 1..Len(calls) : calls[k].mermaid_config = ExpectedMermaidConfig
        /\ pc \in {"load_playwright_config", "load_css", "run_renderer"} =>
               mermaid_config = ExpectedMermaidConfig

\* -t forest with a file that sets the theme to dark: the render got dark
C15_Witness ==
    /\ entry = "cli"
    /\ theme = "forest"
    /\ config_file = "ok"
    /\ config_json = {<<"theme", "dark">>}
    /\ Len(calls) = 1
    /\ calls[1].mermaid_config = {<<"theme", "dark">>}
    /\ calls[1].outcome = "returned"

\* the directory of the destination, of the command line and of the call
CliDestDir == dirname(abspath(output))
DestDir == dirname(abspath(output_file))

\* the run is over
Ended == pc \in {"returned", "raised", "exited"}

\* C16 as stated: a run whose destination directory is absent creates it,
\* with the directories above it, before a render starts and before a file is
\* written, and goes on to write its output there.  For a command line that
\* names an existing input and a destination with a supported extension:
C16_Stated ==
    (/\ entry = "cli"
     /\ Ended
     /\ MissingOutputDir
     /\ ~(UsageError \/ MissingInput \/ BadExtension)
     /\ readonly = {}) => CliDestDir \in made

\* C16: a call of render_mermaid_file whose destination directory is absent
\* creates it, with the directories above it, before a render starts and
\* before a file is written, and the files it writes go there; the command
\* line creates no directory: main ends the run when the directory of the
\* destination does not exist.
C16_DirectoryCreated ==
    LET dest == DestDir
    IN  /\ (entry = "api" /\ pc \notin {"determine_format", "get_input_data", "make_dirs"}
            /\ dest \notin StartDirs) =>
               \/ pc = "raised" /\ calls = <<>> /\ writes = <<>> /\ made = {}
               \/ dest \in made /\ Ancestors(dest) \subseteq dirs
        /\ (calls # <<>> \/ writes # <<>>) => dest \in dirs
        /\ \A k \in 1..Len(writes) : writes[k].path \in files /\ dirname(writes[k].path) = dest
        /\ (pc = "returned" /\ output_file # DevStdout) => writes # <<>>
        /\ entry = "cli" => made = {}
        /\ (entry = "cli" /\ pc = "exited" /\ MissingOutputDir) => exit_code # 0 /\ writes = <<>>

\* a call with the destination o/p/out.md, neither o nor o/p being there,
\* returned: both were created and the destination is in o/p
C16_Witness ==
    /\ entry = "api"
    /\ pc = "returned"
    /\ made = {SubDir, SubDir \o <<"/", "p">>}
    /\ writes[Len(writes)].path = SubDir \o <<"/", "p", "/">> \o OutMd

\* the text the run wrote to its Markdown destination
WrittenText == writes[Len(writes)].content.text

\* three backticks and the word mermaid
MermaidOpening == Fence3(Backtick) \o Word

\* C17 as stated: after render_mermaid_file succeeds on Markdown input with a
\* Markdown destination, the text of the destination holds an image reference
\* for each diagram and no ```mermaid opening fence.
C17_Stated ==
    (pc = "returned" /\ MarkdownInput /\ IsMarkdownPath(output_file)) =>
        /\ \A k \in 1..Len(matches) : Contains(WrittenText, ReferenceOf(k))
        /\ ~Contains(WrittenText, MermaidOpening)

\* C17: after render_mermaid_file succeeds on Markdown input with a Markdown
\* destination, the text of the destination holds the image reference of every
\* block that was extracted and nothing the pattern matches; a mermaid fence
\* the pattern does not match (four backticks, no closing line, text after the
\* word mermaid) is in the destination as it was in the source.
C17_NoBlockLeft ==
    (pc = "returned" /\ MarkdownInput /\ IsMarkdownPath(output_file)) =>
        /\ \A k \in 1..Len(matches) : Contains(WrittenText, ReferenceOf(k))
        /\ finditer(WrittenText) = <<>>
        /\ layout.tail # <<>> =>
               /\ Contains(WrittenText, MermaidOpening)
               /\ Contains(WrittenText, JoinLines(layout.tail, <<"\n">>))

\* a document with one block and then a fence of four backticks was written:
\* the reference is there, and so is the long fence
C17_Witness ==
    /\ pc = "returned"
    /\ MarkdownInput
    /\ IsMarkdownPath(output_file)
    /\ Len(matches) = 1
    /\ layout.tail = LongFence
    /\ Contains(WrittenText, ReferenceOf(1))

\* the signature of each format
SignatureOf(fmt) ==
    CASE fmt = svg -> "<svg"
      [] fmt = png -> "89 50 4E 47 (.PNG)"
      [] fmt = pdf -> "%PDF"

BlocksOfInput == finditer(UniversalNewlines(src))

\* render_mermaid_file has returned (and, from the command line, mmdc exited
\* with success)
Returned == pc = "returned" \/ (pc = "exited" /\ exit_code = 0)

\* the invocations made so far are the first blocks in source order, each
\* once, and none follows an invocation that raised
InOrderOnce ==
    /\ MarkdownInput =>
           /\ Len(calls) <= Len(matches)
           /\ \A k \in 1..Len(calls) : calls[k].definition = group2(definition, matches[k])
    /\ ~MarkdownInput =>
           /\ Len(calls) <= 1
           /\ \A k \in 1..Len(calls) : calls[k].definition = definition
    /\ \A k \in 1..(Len(calls) - 1) : calls[k].outcome = "returned"

\* C19 as stated: for Markdown input with N blocks render_mermaid is invoked
\* exactly once per block in source order, never retried and never for a block
\* after an earlier render failed; for non-Markdown input exactly once.  When
\* a run that came to render has ended and no render failed:
C19_Stated ==
    /\ InOrderOnce
    /\ (Ended /\ calls # <<>> /\ \A k \in 1..Len(calls) : calls[k].outcome = "returned") =>
           Len(calls) = IF MarkdownInput THEN Len(BlocksOfInput) ELSE 1

\* C19: the invocations of render_mermaid are at every moment the first blocks
\* in source order, one invocation each (the i-th receives the body of the
\* i-th block; for non-Markdown input the one invocation receives the whole
\* input); none is made after a render raised or after the file of the block
\* before it could not be written; and when render_mermaid_file returns there
\* has been exactly one per block, or exactly one for non-Markdown input.
C19_InOrderOnce ==
    /\ InOrderOnce
    /\ MarkdownInput => Len(SiblingWrites) >= Len(calls) - 1
    /\ Returned =>
           /\ Len(calls) = IF MarkdownInput THEN Len(BlocksOfInput) ELSE 1
           /\ \A k \in 1..Len(calls) : calls[k].outcome = "returned"

\* a Markdown run of two different blocks has returned after two invocations
C19_Witness ==
    /\ Returned
    /\ MarkdownInput
    /\ Len(calls) = 2
    /\ calls[1].definition # calls[2].definition

\* the browser sessions that are open: launched and not yet closed
OpenSessions == launches - closes

\* C20: at every point of a run at most one browser session is open: when the
\* launch for a block is about to happen every session launched before it is
\* closed and every earlier call of render_mermaid has ended, and when
\* render_mermaid_file has returned or raised (and after mmdc has exited) the
\* number of closes equals the number of successful launches.
C20_OneSession ==
    /\ OpenSessions \in {0, 1}
    /\ browser = "open" <=> OpenSessions = 1
    /\ pc = "launch" =>
           /\ OpenSessions = 0
           /\ \A k \in 1..(Len(calls) - 1) : calls[k].outcome # "running"
           /\ launches = Len(calls) - 1
    /\ Ended => OpenSessions = 0

\* the session of the second block is open, and the session of the first
\* block is closed
C20_Witness ==
    /\ MarkdownInput
    /\ Len(calls) = 2
    /\ pc = "new_page"
    /\ browser = "open"
    /\ launches = 2
    /\ closes = 1

\* C21: in a Markdown run, while render k is in progress and until its file is
\* written exactly the files of the k - 1 blocks before it have been written
\* (the file of block i is written after render i and before render i + 1);
\* the destination Markdown file is written once, as the last write, after all
\* N renders have returned and all N sibling files are written, and its text
\* is one substitution pass over the text that was read.
C21_WriteOrder ==
    MarkdownInput =>
        /\ pc \in RenderPcs \cup {"write_sibling"} => Len(SiblingWrites) = Len(calls) - 1
        /\ pc = "write_sibling" => CurrentCall.outcome = "returned"
        /\ pc \in {"for_match", "substitute"} => Len(SiblingWrites) = Len(calls)
        /\ \A k \in 1..Len(writes) :
               writes[k].mode = "w" =>
                   /\ k = Len(writes)
                   /\ writes[k].path = abspath(output_file)
                   /\ Len(calls) = Len(matches)
                   /\ \A j \in 1..Len(calls) : calls[j].outcome = "returned"
                   /\ Len(SiblingWrites) = Len(matches)
                   /\ writes[k].content = Text(TextModeWrite(sub(definition, appended).text))

\* the destination Markdown file was written after two renders and two
\* sibling files
C21_Witness ==
    /\ MarkdownInput
    /\ pc = "returned"
    /\ Len(calls) = 2
    /\ Len(writes) = 3
    /\ writes[1].mode = "wb"
    /\ writes[2].mode = "wb"
    /\ writes[3].mode = "w"

RECURSIVE LineEnd(_, _)
\* the position of the line feed that ends the line holding position p, or
\* the position after the text
LineEnd(t, p) == IF p > Len(t) \/ t[p] = "\n" THEN p ELSE LineEnd(t, p + 1)

RECURSIVE Trim(_)
\* a line without its leading and trailing horizontal white space
Trim(line) ==
    IF line = <<>> THEN line
    ELSE IF Head(line) \in HWS THEN Trim(Tail(line))
    ELSE IF line[Len(line)] \in HWS THEN Trim(SubSeq(line, 1, Len(line) - 1))
    ELSE line

\* the trimmed content of the line that starts at position q
TrimmedLine(t, q) == Trim(Slice(t, q, LineEnd(t, q)))

\* the line that starts at q is a closing line: three backticks or three colons
IsClosingLine(t, q) ==
    AtLineStart(t, q) /\ TrimmedLine(t, q) \in {Fence3(c) : c \in FenceChar}

\* the line that starts at q is an opening line: three backticks or three
\* colons and the word
IsOpeningLine(t, q) ==
    AtLineStart(t, q) /\ TrimmedLine(t, q) \in {Fence3(c) \o Word : c \in FenceChar}

\* C22: a block is recognised only when its opening line, trimmed of
\* horizontal white space, is three backticks or three colons followed by
\* mermaid; it ends at the next line whose trimmed content is three backticks
\* or three colons; and the captured body is the text from after the opening
\* line's terminator up to the start of that closing line.
C22_FenceLines ==
    (MarkdownInput /\ pc = "for_match") =>
        \A k \in 1..Len(matches) :
            LET m == matches[k]
                closing == {q \in m.bstart..Len(definition) : IsClosingLine(definition, q)}
            IN  /\ IsOpeningLine(definition, m.start)
                /\ m.bstart = LineEnd(definition, m.start) + 1
                /\ closing # {}
                /\ m.bstop = Min(closing)
                /\ m.stop = LineEnd(definition, m.bstop)

\* C23: every file that render_mermaid_file writes at a path ending in .md or
\* .markdown holds Markdown text, the text read or the substituted text, never
\* a render payload, whatever the input is: a Markdown file, a file that is
\* not Markdown, or standard input.
C23_MarkdownHoldsText ==
    \A k \in 1..Len(writes) :
        IsMarkdownPath(writes[k].path) =>
            /\ writes[k].mode = "w"
            /\ writes[k].content.kind = "text"

\* C24: for Markdown input whose destination ends in .svg, .png or .pdf the
\* destination path itself is never written with Markdown source text: the
\* only files produced are numbered siblings that hold render payloads.
C24_OnlySiblings ==
    (MarkdownInput /\ \E e \in {Ext_svg, Ext_png, Ext_pdf} : EndsWith(Lower(output_file), e)) =>
        \A k \in 1..Len(writes) :
            /\ writes[k].path # abspath(output_file)
            /\ writes[k].mode = "wb"
            /\ writes[k].content.kind = "payload"
            /\ \E j \in 1..Len(matches) : writes[k].path = ExpectedSibling(j)

RECURSIVE Scan(_, _, _)
\* the script from position p on with every string literal replaced by the
\* mark "S"; q is the quote of the literal that position p stands in, "" when
\* it stands in none
Scan(t, p, q) ==
    IF p > Len(t) THEN <<>>
    ELSE IF q = "" THEN (IF t[p] \in {"'", "\""} THEN <<"S">> \o Scan(t, p + 1, t[p])
                         ELSE <<t[p]>> \o Scan(t, p + 1, ""))
    ELSE IF t[p] = "\\" THEN Scan(t, p + 2, q)
    ELSE IF t[p] = q THEN Scan(t, p + 1, "")
    ELSE Scan(t, p + 1, q)

\* the code of a script: what the page runs, apart from the content of its
\* string literals
CodeOf(script) == Scan(script, 1, "")

\* the scripts of the same call made with another definition and another
\* background colour
OtherScripts(k) ==
    <<BackgroundScript(<<"v">>)>>
    \o InjectScripts(<<"v">>, calls[k].mermaid_config,
                     IF css_file = "ok" THEN <<"v">> ELSE <<>>, <<"v">>, <<>>, icon_packs)

\* C25: every caller-supplied value reaches the page only as JSON-serialised
\* data assigned to a page variable and none is part of the script text the
\* page evaluates: the scripts of a call have the same code as the scripts of
\* the call made with another definition, CSS and background colour.
C25_ValuesAsData ==
    \A n \in 1..Len(evaluated) :
        LET k == ((n - 1) \div 7) + 1
            j == ((n - 1) % 7) + 1
        IN  CodeOf(evaluated[n]) = CodeOf(OtherScripts(k)[j])

\* block k of the layout is opened with three o and closed with three c
Pairs(k, o, c) ==
    layout.blocks[k] = BlockLines(Fence3(o), <<BodyOf(o, c)>>, Fence3(c))

\* C26: a block opened with three backticks can be closed by three colons and
\* a block opened with three colons by three backticks: for each of the four
\* pairings of opening and closing delimiter the block is extracted, and its
\* body is the text between the two lines.
C26_MixedFences ==
    (MarkdownInput /\ pc \in {"for_match", "no_blocks"}) =>
        \A k \in 1..Len(layout.blocks) :
            \A o \in {Backtick, ":"}, c \in {Backtick, ":"} :
                Pairs(k, o, c) =>
                    /\ k <= Len(matches)
                    /\ group2(definition, matches[k]) = BodyOf(o, c) \o <<"\n">>
                    /\ SubSeq(group0(definition, matches[k]), 1, 3) = Fence3(o)
                    /\ EndsWith(group0(definition, matches[k]), Fence3(c))

\* a block opened with backticks and closed by colons, then a block opened
\* with colons and closed by backticks, were both extracted
C26_Witness ==
    /\ MarkdownInput
    /\ pc = "for_match"
    /\ Len(layout.blocks) = 2
    /\ Pairs(1, Backtick, ":")
    /\ Pairs(2, ":", Backtick)
    /\ Len(matches) = 2
    /\ group2(definition, matches[1]) = <<"B", "\n">>
    /\ group2(definition, matches[2]) = <<"C", "\n">>

\* the two ValueErrors of render_mermaid_file
FormatError == "ValueError: Output format must be one of svg, png or pdf"
StdoutError == "ValueError: Cannot use stdout with markdown input"

\* the run has launched a browser, called render_mermaid or written output
HasActed ==
    \/ launches > 0
    \/ calls # <<>>
    \/ writes # <<>>
    \/ \E k \in 1..Len(stdout) : stdout[k].kind = "payload"

\* C27: render_mermaid_file rejects an unsupported output format, and Markdown
\* input with the destination /dev/stdout, by raising ValueError before a
\* browser is launched and before an output file is written: a run that
\* raised one of the two has done neither, and a run that has done either, or
\* has returned, has a supported format and is not a Markdown run to
\* /dev/stdout.
C27_Rejected ==
    /\ exc \in {FormatError, StdoutError} => ~HasActed
    /\ exc = FormatError => output_format \notin {svg, png, pdf}
    /\ exc = StdoutError => MarkdownInput /\ output_file = DevStdout
    /\ (HasActed \/ pc = "returned") =>
           /\ output_format \in {svg, png, pdf}
           /\ ~(MarkdownInput /\ output_file = DevStdout)

\* a Markdown document with a block was refused for /dev/stdout
C27_Witness ==
    /\ pc = "raised"
    /\ exc = StdoutError
    /\ MarkdownInput
    /\ finditer(definition) # <<>>
    /\ ~HasActed

\* C28: in a Markdown run the sibling paths are pairwise distinct and none of
\* them is the input path or the destination path: the path computed for a
\* block (the render is about to launch) and every path a sibling file has
\* been written at (the loop is back at its head) differs from the source
\* document, from the destination and from the path of every other block's
\* file.
C28_SiblingsApart ==
    (MarkdownInput /\ calls # <<>> /\ pc \in {"launch", "for_match"}) =>
        LET written == SiblingWrites
            source == abspath(input_file)
            destination == abspath(output_file)
        IN  /\ \A j, k \in 1..Len(written) : j # k => written[j].path # written[k].path
            /\ \A k \in 1..Len(written) : written[k].path \notin {source, destination}
            /\ pc = "launch" =>
                   /\ output_image \notin {source, destination}
                   /\ \A k \in 1..Len(written) : written[k].path # output_image

\* two sibling files were written beside a destination that is itself an
\* image path
C28_Witness ==
    /\ MarkdownInput
    /\ ~IsMarkdownPath(output_file)
    /\ Len(SiblingWrites) = 2
    /\ SiblingWrites[1].path # SiblingWrites[2].path

\* C29: for PNG output the viewport is resized to width floor(left) +
\* ceil(width) and height floor(top) + ceil(height) of the rendered element's
\* bounding box, and the resized viewport encloses the whole box: the right
\* edge left + width and the bottom edge top + height lie inside it.
C29_ViewportEncloses ==
    (pc = "finally" /\ exc = "none" /\ CurrentCall.output_format = png) =>
        LET rect == RectOf(CurrentCall.definition)
        IN  /\ viewport.width = Floor(rect.left) + Ceil(rect.width)
            /\ viewport.height = Floor(rect.top) + Ceil(rect.height)
            /\ rect.left + rect.width <= viewport.width * Den
            /\ rect.top + rect.height <= viewport.height * Den

\* the text of the first child named tag, the empty text when there is none
FirstNamed(children, tag) ==
    LET found == {k \in 1..Len(children) : children[k].tag = tag}
    IN  IF found = {} THEN <<>>
        ELSE children[CHOOSE k \in found : \A j \in found : k <= j].text

\* the render script of the call in progress has returned
Extracted == pc = "capture" /\ calls # <<>>

\* C30: the returned title is the text of the first child element of
\* the rendered SVG named title and the returned description the text of its
\* first child element named desc, null when there is no such child, wherever
\* among the children that element stands.
C30_FirstNamed ==
    Extracted =>
        /\ result.title = FirstNamed(SvgOf(CurrentCall.definition), "title")
        /\ result.desc = FirstNamed(SvgOf(CurrentCall.definition), "desc")

====
